---- MODULE Spec2Model ----
(***************************************************************************)
(* cidr-block: IPv4 / IPv6 addresses and CIDR blocks.                      *)
(*                                                                         *)
(* Representation of JavaScript values.                                    *)
(*  - Every JS value is a record with a field k naming its kind            *)
(*    ("number", "bigint", "string", "array", "boolean", "undefined",      *)
(*    "throw", or the class of an object).                                 *)
(*  - An integer-valued JS number n is held as its four base-256 digits    *)
(*    <<d1,d2,d3,d4>>, n = d1*2^24 + d2*2^16 + d3*2^8 + d4, with d2..d4 in *)
(*    0..255 and d1 ANY integer (d1 < 0 for n < 0, d1 > 255 for n >= 2^32).*)
(*    This keeps values such as 2^32 and -2^31 exact.                      *)
(*  - A BigInt is held the same way with eight base-65536 digits.          *)
(*  - A string is the sequence of its characters.                          *)
(***************************************************************************)
EXTENDS Integers, Sequences, FiniteSets, TLC

VARIABLES
  obj,  \* the object the caller holds: an Ipv4Address, Ipv6Address, Ipv4Cidr or Ipv6Cidr
  op,   \* the method called on it last ("new" right after construction)
  arg,  \* the argument of that call (None when it has none)
  res,  \* what that call returned or threw
  heap  \* the arrays the caller shares with the object, by reference (none
        \* where the caller never writes to an array)

vars == <<obj, op, arg, res, heap>>

None == [k |-> "none"]

-----------------------------------------------------------------------------
(* JS values *)

Undefined == [k |-> "undefined"]
Throw(e) == [k |-> "throw", err |-> e]
Bool(x) == [k |-> "boolean", v |-> x]
NumberV(n) == [k |-> "number", v |-> n]
BigIntV(n) == [k |-> "bigint", v |-> n]
ArrayV(s) == [k |-> "array", v |-> s]
StringV(s) == [k |-> "string", v |-> s]
JsInt(n) == [k |-> "int", v |-> n]
JsNaN == [k |-> "NaN"]

\* the array whose elements are f[1], ..., f[n], each computed once
Arr(f) == f \o <<>>

-----------------------------------------------------------------------------
(* Exact integer arithmetic on digit sequences (most significant first).   *)
(* B is the base; the first digit carries sign and overflow.               *)

NumNorm(B, s) ==
  LET n == Len(s)
      cin[i \in 1..n] == IF i = n THEN 0 ELSE (s[i + 1] + cin[i + 1]) \div B
  IN  Arr([i \in 1..n |-> IF i = 1 THEN s[1] + cin[1] ELSE (s[i] + cin[i]) % B])

NumAdd(B, x, y) == NumNorm(B, Arr([i \in 1..Len(x) |-> x[i] + y[i]]))
NumSub(B, x, y) == NumNorm(B, Arr([i \in 1..Len(x) |-> x[i] - y[i]]))
NumMulSmall(B, m, x) == NumNorm(B, Arr([i \in 1..Len(x) |-> m * x[i]]))
NumLt(x, y) ==
  \E i \in 1..Len(x) : x[i] < y[i] /\ \A j \in 1..(i - 1) : x[j] = y[j]
\* <= that is false of equal operands
NumLe_strict(x, y) == NumLt(x, y)
NumLe(x, y) == x = y \/ NumLt(x, y)
NumGt(x, y) == NumLt(y, x)
NumGe(x, y) == NumLe(y, x)

\* n digits of base 2^w holding the integer m, 0 <= m < 2^31
NumOfInt(w, n, m) ==
  NumNorm(2 ^ w, Arr([i \in 1..n |-> IF i = n THEN m ELSE 0]))

\* 2 ** e as n digits of base 2^w, 0 <= e <= n*w
NumPow2(w, n, e) ==
  Arr([i \in 1..n |->
     IF e >= w * (n - 1)
       THEN (IF i = 1 THEN 2 ^ (e - w * (n - 1)) ELSE 0)
       ELSE (IF i = n - (e \div w) THEN 2 ^ (e % w) ELSE 0)])

\* ToInt32 / ToUint32 of an integer-valued number (ECMAScript 7.1.6, 7.1.7)
ToInt32(x) == [x EXCEPT ![1] = ((@ + 128) % 256) - 128]
ToUint32(x) == [x EXCEPT ![1] = @ % 256]

\* a & b on two bytes, bit by bit
RECURSIVE ByteAnd(_, _, _)
ByteAnd(a, b, bits) ==
  IF bits = 0 THEN 0
  ELSE (a % 2) * (b % 2) + 2 * ByteAnd(a \div 2, b \div 2, bits - 1)

\* ~x : -x - 1 of the int32 of x
JsNot(x) ==
  Arr([i \in 1..4 |-> IF i = 1 THEN -1 - ToInt32(x)[1] ELSE 255 - x[i]])

\* x << count : the int32 of x * 2^(count mod 32), as a shift by whole bytes
\* after a multiplication by 2^(count mod 8)
ShiftBytes(x, bytes) == Arr([i \in 1..4 |-> IF i + bytes <= 4 THEN x[i + bytes] ELSE 0])
JsShl(x, count) ==
  ToInt32(ShiftBytes(ToUint32(NumMulSmall(256, 2 ^ ((count % 32) % 8), ToInt32(x))),
                     (count % 32) \div 8))

\* x & y : bitwise on the two int32
JsAnd(x, y) ==
  ToInt32(Arr([i \in 1..4 |-> ByteAnd(ToUint32(x)[i], ToUint32(y)[i], 8)]))

\* a | b on two integers a >= 0 and b >= 0, bit by bit
RECURSIVE BitOr(_, _)
BitOr(a, b) ==
  IF a = 0 THEN b
  ELSE IF b = 0 THEN a
  ELSE (IF a % 2 = 1 \/ b % 2 = 1 THEN 1 ELSE 0) + 2 * BitOr(a \div 2, b \div 2)

\* x | y : bitwise on the two int32
JsOr(x, y) ==
  ToInt32(Arr([i \in 1..4 |-> BitOr(ToUint32(x)[i], ToUint32(y)[i])]))

\* x | y on two BigInt x >= 0 and y >= 0
BigOr(x, y) == Arr([i \in 1..Len(x) |-> BitOr(x[i], y[i])])

-----------------------------------------------------------------------------
(* Strings *)

Digits == <<"0", "1", "2", "3", "4", "5", "6", "7", "8", "9">>
HexDigits ==
  <<"0", "1", "2", "3", "4", "5", "6", "7", "8", "9", "a", "b", "c", "d", "e", "f">>

IsPrefixAt(s, sep, i) ==
  /\ i + Len(sep) - 1 <= Len(s)
  /\ \A j \in 1..Len(sep) : s[i + j - 1] = sep[j]

\* String.prototype.split(sep), sep a non-empty string
RECURSIVE JsSplit(_, _)
JsSplit(s, sep) ==
  IF \A i \in 1..Len(s) : ~IsPrefixAt(s, sep, i)
    THEN <<s>>
    ELSE LET p == CHOOSE i \in 1..Len(s) :
                    /\ IsPrefixAt(s, sep, i)
                    /\ \A j \in 1..(i - 1) : ~IsPrefixAt(s, sep, j)
         IN  <<SubSeq(s, 1, p - 1)>>
               \o JsSplit(SubSeq(s, p + Len(sep), Len(s)), sep)

\* Array.prototype.join(sep) over an array of strings
RECURSIVE JsJoin(_, _)
JsJoin(parts, sep) ==
  IF Len(parts) = 0 THEN <<>>
  ELSE IF Len(parts) = 1 THEN parts[1]
  ELSE parts[1] \o sep \o JsJoin(Tail(parts), sep)

DigitValue(ch, alphabet) == (CHOOSE i \in 1..Len(alphabet) : alphabet[i] = ch) - 1
IsDigitOf(ch, alphabet) == \E i \in 1..Len(alphabet) : alphabet[i] = ch

\* value of a non-empty string of digits of the given alphabet
RECURSIVE DigitsValue(_, _)
DigitsValue(s, alphabet) ==
  IF Len(s) = 0 THEN 0
  ELSE DigitsValue(SubSeq(s, 1, Len(s) - 1), alphabet) * Len(alphabet)
         + DigitValue(s[Len(s)], alphabet)

\* Number.prototype.toString(radix) of an integer n >= 0
RECURSIVE JsToString(_, _)
JsToString(n, alphabet) ==
  IF n < Len(alphabet) THEN <<alphabet[n + 1]>>
  ELSE JsToString(n \div Len(alphabet), alphabet) \o <<alphabet[(n % Len(alphabet)) + 1]>>

\* the white space and line terminators of ECMAScript (StrWhiteSpaceChar):
\* space, tab, line feed, carriage return, form feed, and then vertical tab
\* U+000B, no-break space U+00A0, ogham space mark U+1680 and the byte order
\* mark U+FEFF. The remaining ones (U+2000 to U+200A, U+2028, U+2029, U+202F,
\* U+205F, U+3000) cannot be written in a string of this language, so no
\* string of the model holds them.
WhiteSpace == {" ", "\t", "\n", "\r", "\f", "", " ", " ", "﻿"}

\* how many characters of the set s starts with, and ends with
LeadingIn(s, set) ==
  IF \A i \in 1..Len(s) : s[i] \in set THEN Len(s)
  ELSE (CHOOSE i \in 1..Len(s) : s[i] \notin set /\ \A j \in 1..(i - 1) : s[j] \in set) - 1
TrailingIn(s, set) ==
  IF \A i \in 1..Len(s) : s[i] \in set THEN Len(s)
  ELSE Len(s) - (CHOOSE i \in 1..Len(s) :
                   s[i] \notin set /\ \A j \in (i + 1)..Len(s) : s[j] \in set)

\* String.prototype.trim, and the trimming Number(string) starts with
JsTrim(s) ==
  IF LeadingIn(s, WhiteSpace) = Len(s) THEN <<>>
  ELSE SubSeq(s, LeadingIn(s, WhiteSpace) + 1, Len(s) - TrailingIn(s, WhiteSpace))

\* the letters that a numeric literal, a hexadecimal group or the ::ffff:
\* prefix accepts in either case, folded to lower case
UpperLetters == <<"A", "B", "C", "D", "E", "F", "O", "X">>
LowerLetters == <<"a", "b", "c", "d", "e", "f", "o", "x">>
FoldCase(s) ==
  Arr([i \in 1..Len(s) |->
        IF \E j \in 1..Len(UpperLetters) : UpperLetters[j] = s[i]
          THEN LowerLetters[CHOOSE j \in 1..Len(UpperLetters) : UpperLetters[j] = s[i]]
          ELSE s[i]])

AllDigitsOf(s, alphabet) == Len(s) > 0 /\ \A i \in 1..Len(s) : IsDigitOf(s[i], alphabet)

\* The results of Number(string) and parseInt: JsInt is an integer, below
\* 10^6 in magnitude from Number and below 10^8 from parseInt; "big" is a
\* larger integer or Infinity; "fraction" is a number that is not an integer.
JsBig == [k |-> "big"]
JsFraction == [k |-> "fraction"]

\* the integer m * 10^e
DecimalValue(m, e) ==
  IF m = 0 THEN JsInt(0)
  ELSE IF e > 5 \/ m * (10 ^ e) >= 1000000 THEN JsBig ELSE JsInt(m * (10 ^ e))

JsNegate(x) == IF x.k = "int" THEN JsInt(-x.v) ELSE x

\* s without its leading "0"s, and without its trailing "0"s
StripZeros(s) == SubSeq(s, LeadingIn(s, {"0"}) + 1, Len(s))
StripTrailingZeros(s) == SubSeq(s, 1, Len(s) - TrailingIn(s, {"0"}))

\* the digits of an integer literal of the given alphabet, of any length:
\* more than maxLen digits after the leading zeros make it 10^6 or more
IntegerLiteral(s, alphabet, maxLen) ==
  IF Len(StripZeros(s)) > maxLen THEN JsBig
  ELSE DecimalValue(DigitsValue(StripZeros(s), alphabet), 0)

\* Decimal numbers of any length are sequences of the digits 0..9, most
\* significant first: an integer has no leading zero (0 is <<>>), a fraction
\* 0.d1d2... is <<d1, d2, ...>>.
DigitsOf(s) == Arr([i \in 1..Len(s) |-> DigitValue(s[i], Digits)])

LexLess(a, b) ==
  \E i \in 1..Len(a) : a[i] < b[i] /\ \A j \in 1..(i - 1) : a[j] = b[j]

\* a < b for integers
DecLess(a, b) == Len(a) < Len(b) \/ (Len(a) = Len(b) /\ LexLess(a, b))

\* 0.a <= 0.b for fractions
PadTo(a, n) == Arr([i \in 1..n |-> IF i <= Len(a) THEN a[i] ELSE 0])
FracLeAt(a, b, n) == ~LexLess(PadTo(b, n), PadTo(a, n))
FracLe(a, b) == FracLeAt(a, b, IF Len(a) > Len(b) THEN Len(a) ELSE Len(b))

\* 1 - 0.f, for f with a last digit that is not 0
Complement(f) == Arr([i \in 1..Len(f) |-> IF i = Len(f) THEN 10 - f[i] ELSE 9 - f[i]])

RECURSIVE SmallValue(_)
SmallValue(a) == IF Len(a) = 0 THEN 0 ELSE SmallValue(SubSeq(a, 1, Len(a) - 1)) * 10 + a[Len(a)]

\* 2^0 .. 2^52 in decimal; from 2^52 on every double is an integer
PowersOfTwo ==
  <<<<1>>,
    <<2>>,
    <<4>>,
    <<8>>,
    <<1, 6>>,
    <<3, 2>>,
    <<6, 4>>,
    <<1, 2, 8>>,
    <<2, 5, 6>>,
    <<5, 1, 2>>,
    <<1, 0, 2, 4>>,
    <<2, 0, 4, 8>>,
    <<4, 0, 9, 6>>,
    <<8, 1, 9, 2>>,
    <<1, 6, 3, 8, 4>>,
    <<3, 2, 7, 6, 8>>,
    <<6, 5, 5, 3, 6>>,
    <<1, 3, 1, 0, 7, 2>>,
    <<2, 6, 2, 1, 4, 4>>,
    <<5, 2, 4, 2, 8, 8>>,
    <<1, 0, 4, 8, 5, 7, 6>>,
    <<2, 0, 9, 7, 1, 5, 2>>,
    <<4, 1, 9, 4, 3, 0, 4>>,
    <<8, 3, 8, 8, 6, 0, 8>>,
    <<1, 6, 7, 7, 7, 2, 1, 6>>,
    <<3, 3, 5, 5, 4, 4, 3, 2>>,
    <<6, 7, 1, 0, 8, 8, 6, 4>>,
    <<1, 3, 4, 2, 1, 7, 7, 2, 8>>,
    <<2, 6, 8, 4, 3, 5, 4, 5, 6>>,
    <<5, 3, 6, 8, 7, 0, 9, 1, 2>>,
    <<1, 0, 7, 3, 7, 4, 1, 8, 2, 4>>,
    <<2, 1, 4, 7, 4, 8, 3, 6, 4, 8>>,
    <<4, 2, 9, 4, 9, 6, 7, 2, 9, 6>>,
    <<8, 5, 8, 9, 9, 3, 4, 5, 9, 2>>,
    <<1, 7, 1, 7, 9, 8, 6, 9, 1, 8, 4>>,
    <<3, 4, 3, 5, 9, 7, 3, 8, 3, 6, 8>>,
    <<6, 8, 7, 1, 9, 4, 7, 6, 7, 3, 6>>,
    <<1, 3, 7, 4, 3, 8, 9, 5, 3, 4, 7, 2>>,
    <<2, 7, 4, 8, 7, 7, 9, 0, 6, 9, 4, 4>>,
    <<5, 4, 9, 7, 5, 5, 8, 1, 3, 8, 8, 8>>,
    <<1, 0, 9, 9, 5, 1, 1, 6, 2, 7, 7, 7, 6>>,
    <<2, 1, 9, 9, 0, 2, 3, 2, 5, 5, 5, 5, 2>>,
    <<4, 3, 9, 8, 0, 4, 6, 5, 1, 1, 1, 0, 4>>,
    <<8, 7, 9, 6, 0, 9, 3, 0, 2, 2, 2, 0, 8>>,
    <<1, 7, 5, 9, 2, 1, 8, 6, 0, 4, 4, 4, 1, 6>>,
    <<3, 5, 1, 8, 4, 3, 7, 2, 0, 8, 8, 8, 3, 2>>,
    <<7, 0, 3, 6, 8, 7, 4, 4, 1, 7, 7, 6, 6, 4>>,
    <<1, 4, 0, 7, 3, 7, 4, 8, 8, 3, 5, 5, 3, 2, 8>>,
    <<2, 8, 1, 4, 7, 4, 9, 7, 6, 7, 1, 0, 6, 5, 6>>,
    <<5, 6, 2, 9, 4, 9, 9, 5, 3, 4, 2, 1, 3, 1, 2>>,
    <<1, 1, 2, 5, 8, 9, 9, 9, 0, 6, 8, 4, 2, 6, 2, 4>>,
    <<2, 2, 5, 1, 7, 9, 9, 8, 1, 3, 6, 8, 5, 2, 4, 8>>,
    <<4, 5, 0, 3, 5, 9, 9, 6, 2, 7, 3, 7, 0, 4, 9, 6>>>>
TwoTo52 == PowersOfTwo[53]

\* 5^1 .. 5^54 in decimal: 2^-k = 5^k / 10^k is the fraction of k digits
\* that ends with the digits of 5^k
PowersOfFive ==
  <<<<5>>,
    <<2, 5>>,
    <<1, 2, 5>>,
    <<6, 2, 5>>,
    <<3, 1, 2, 5>>,
    <<1, 5, 6, 2, 5>>,
    <<7, 8, 1, 2, 5>>,
    <<3, 9, 0, 6, 2, 5>>,
    <<1, 9, 5, 3, 1, 2, 5>>,
    <<9, 7, 6, 5, 6, 2, 5>>,
    <<4, 8, 8, 2, 8, 1, 2, 5>>,
    <<2, 4, 4, 1, 4, 0, 6, 2, 5>>,
    <<1, 2, 2, 0, 7, 0, 3, 1, 2, 5>>,
    <<6, 1, 0, 3, 5, 1, 5, 6, 2, 5>>,
    <<3, 0, 5, 1, 7, 5, 7, 8, 1, 2, 5>>,
    <<1, 5, 2, 5, 8, 7, 8, 9, 0, 6, 2, 5>>,
    <<7, 6, 2, 9, 3, 9, 4, 5, 3, 1, 2, 5>>,
    <<3, 8, 1, 4, 6, 9, 7, 2, 6, 5, 6, 2, 5>>,
    <<1, 9, 0, 7, 3, 4, 8, 6, 3, 2, 8, 1, 2, 5>>,
    <<9, 5, 3, 6, 7, 4, 3, 1, 6, 4, 0, 6, 2, 5>>,
    <<4, 7, 6, 8, 3, 7, 1, 5, 8, 2, 0, 3, 1, 2, 5>>,
    <<2, 3, 8, 4, 1, 8, 5, 7, 9, 1, 0, 1, 5, 6, 2, 5>>,
    <<1, 1, 9, 2, 0, 9, 2, 8, 9, 5, 5, 0, 7, 8, 1, 2, 5>>,
    <<5, 9, 6, 0, 4, 6, 4, 4, 7, 7, 5, 3, 9, 0, 6, 2, 5>>,
    <<2, 9, 8, 0, 2, 3, 2, 2, 3, 8, 7, 6, 9, 5, 3, 1, 2, 5>>,
    <<1, 4, 9, 0, 1, 1, 6, 1, 1, 9, 3, 8, 4, 7, 6, 5, 6, 2, 5>>,
    <<7, 4, 5, 0, 5, 8, 0, 5, 9, 6, 9, 2, 3, 8, 2, 8, 1, 2, 5>>,
    <<3, 7, 2, 5, 2, 9, 0, 2, 9, 8, 4, 6, 1, 9, 1, 4, 0, 6, 2, 5>>,
    <<1, 8, 6, 2, 6, 4, 5, 1, 4, 9, 2, 3, 0, 9, 5, 7, 0, 3, 1, 2, 5>>,
    <<9, 3, 1, 3, 2, 2, 5, 7, 4, 6, 1, 5, 4, 7, 8, 5, 1, 5, 6, 2, 5>>,
    <<4, 6, 5, 6, 6, 1, 2, 8, 7, 3, 0, 7, 7, 3, 9, 2, 5, 7, 8, 1, 2, 5>>,
    <<2, 3, 2, 8, 3, 0, 6, 4, 3, 6, 5, 3, 8, 6, 9, 6, 2, 8, 9, 0, 6, 2, 5>>,
    <<1, 1, 6, 4, 1, 5, 3, 2, 1, 8, 2, 6, 9, 3, 4, 8, 1, 4, 4, 5, 3, 1, 2, 5>>,
    <<5, 8, 2, 0, 7, 6, 6, 0, 9, 1, 3, 4, 6, 7, 4, 0, 7, 2, 2, 6, 5, 6, 2, 5>>,
    <<2, 9, 1, 0, 3, 8, 3, 0, 4, 5, 6, 7, 3, 3, 7, 0, 3, 6, 1, 3, 2, 8, 1, 2, 5>>,
    <<1, 4, 5, 5, 1, 9, 1, 5, 2, 2, 8, 3, 6, 6, 8, 5, 1, 8, 0, 6, 6, 4, 0, 6, 2, 5>>,
    <<7, 2, 7, 5, 9, 5, 7, 6, 1, 4, 1, 8, 3, 4, 2, 5, 9, 0, 3, 3, 2, 0, 3, 1, 2, 5>>,
    <<3, 6, 3, 7, 9, 7, 8, 8, 0, 7, 0, 9, 1, 7, 1, 2, 9, 5, 1, 6, 6, 0, 1, 5, 6, 2, 5>>,
    <<1, 8, 1, 8, 9, 8, 9, 4, 0, 3, 5, 4, 5, 8, 5, 6, 4, 7, 5, 8, 3, 0, 0, 7, 8, 1, 2, 5>>,
    <<9, 0, 9, 4, 9, 4, 7, 0, 1, 7, 7, 2, 9, 2, 8, 2, 3, 7, 9, 1, 5, 0, 3, 9, 0, 6, 2, 5>>,
    <<4, 5, 4, 7, 4, 7, 3, 5, 0, 8, 8, 6, 4, 6, 4, 1, 1, 8, 9, 5, 7, 5, 1, 9, 5, 3, 1, 2, 5>>,
    <<2, 2, 7, 3, 7, 3, 6, 7, 5, 4, 4, 3, 2, 3, 2, 0, 5, 9, 4, 7, 8, 7, 5, 9, 7, 6, 5, 6, 2, 5>>,
    <<1, 1, 3, 6, 8, 6, 8, 3, 7, 7, 2, 1, 6, 1, 6, 0, 2, 9, 7, 3, 9, 3, 7, 9, 8, 8, 2, 8, 1, 2, 5>>,
    <<5, 6, 8, 4, 3, 4, 1, 8, 8, 6, 0, 8, 0, 8, 0, 1, 4, 8, 6, 9, 6, 8, 9, 9, 4, 1, 4, 0, 6, 2, 5>>,
    <<2, 8, 4, 2, 1, 7, 0, 9, 4, 3, 0, 4, 0, 4, 0, 0, 7, 4, 3, 4, 8, 4, 4, 9, 7, 0, 7, 0, 3, 1, 2, 5>>,
    <<1, 4, 2, 1, 0, 8, 5, 4, 7, 1, 5, 2, 0, 2, 0, 0, 3, 7, 1, 7, 4, 2, 2, 4, 8, 5, 3, 5, 1, 5, 6, 2, 5>>,
    <<7, 1, 0, 5, 4, 2, 7, 3, 5, 7, 6, 0, 1, 0, 0, 1, 8, 5, 8, 7, 1, 1, 2, 4, 2, 6, 7, 5, 7, 8, 1, 2, 5>>,
    <<3, 5, 5, 2, 7, 1, 3, 6, 7, 8, 8, 0, 0, 5, 0, 0, 9, 2, 9, 3, 5, 5, 6, 2, 1, 3, 3, 7, 8, 9, 0, 6, 2, 5>>,
    <<1, 7, 7, 6, 3, 5, 6, 8, 3, 9, 4, 0, 0, 2, 5, 0, 4, 6, 4, 6, 7, 7, 8, 1, 0, 6, 6, 8, 9, 4, 5, 3, 1, 2, 5>>,
    <<8, 8, 8, 1, 7, 8, 4, 1, 9, 7, 0, 0, 1, 2, 5, 2, 3, 2, 3, 3, 8, 9, 0, 5, 3, 3, 4, 4, 7, 2, 6, 5, 6, 2, 5>>,
    <<4, 4, 4, 0, 8, 9, 2, 0, 9, 8, 5, 0, 0, 6, 2, 6, 1, 6, 1, 6, 9, 4, 5, 2, 6, 6, 7, 2, 3, 6, 3, 2, 8, 1, 2, 5>>,
    <<2, 2, 2, 0, 4, 4, 6, 0, 4, 9, 2, 5, 0, 3, 1, 3, 0, 8, 0, 8, 4, 7, 2, 6, 3, 3, 3, 6, 1, 8, 1, 6, 4, 0, 6, 2, 5>>,
    <<1, 1, 1, 0, 2, 2, 3, 0, 2, 4, 6, 2, 5, 1, 5, 6, 5, 4, 0, 4, 2, 3, 6, 3, 1, 6, 6, 8, 0, 9, 0, 8, 2, 0, 3, 1, 2, 5>>,
    <<5, 5, 5, 1, 1, 1, 5, 1, 2, 3, 1, 2, 5, 7, 8, 2, 7, 0, 2, 1, 1, 8, 1, 5, 8, 3, 4, 0, 4, 5, 4, 1, 0, 1, 5, 6, 2, 5>>>>
TwoToMinus(k) ==
  Arr([i \in 1..k |-> IF i <= k - Len(PowersOfFive[k]) THEN 0
                      ELSE PowersOfFive[k][i - (k - Len(PowersOfFive[k]))]])

\* the digits of 5^1075: 2^-1075 = 5^1075 / 10^1075 is half the least
\* positive double, and 323 zeros precede these digits in its fraction
HalfMinDouble ==
  <<2, 4, 7, 0, 3, 2, 8, 2, 2, 9, 2, 0, 6, 2, 3, 2, 7, 2, 0, 8, 8, 2, 8, 4, 3, 9, 6, 4, 3, 4, 1, 1>>
    \o <<0, 6, 8, 6, 1, 8, 2, 5, 2, 9, 9, 0, 1, 3, 0, 7, 1, 6, 2, 3, 8, 2, 2, 1, 2, 7, 9, 2, 8, 4, 1, 2>>
    \o <<5, 0, 3, 3, 7, 7, 5, 3, 6, 3, 5, 1, 0, 4, 3, 7, 5, 9, 3, 2, 6, 4, 9, 9, 1, 8, 1, 8, 0, 8, 1, 7>>
    \o <<9, 9, 6, 1, 8, 9, 8, 9, 8, 2, 8, 2, 3, 4, 7, 7, 2, 2, 8, 5, 8, 8, 6, 5, 4, 6, 3, 3, 2, 8, 3, 5>>
    \o <<5, 1, 7, 7, 9, 6, 9, 8, 9, 8, 1, 9, 9, 3, 8, 7, 3, 9, 8, 0, 0, 5, 3, 9, 0, 9, 3, 9, 0, 6, 3, 1>>
    \o <<5, 0, 3, 5, 6, 5, 9, 5, 1, 5, 5, 7, 0, 2, 2, 6, 3, 9, 2, 2, 9, 0, 8, 5, 8, 3, 9, 2, 4, 4, 9, 1>>
    \o <<0, 5, 1, 8, 4, 4, 3, 5, 9, 3, 1, 8, 0, 2, 8, 4, 9, 9, 3, 6, 5, 3, 6, 1, 5, 2, 5, 0, 0, 3, 1, 9>>
    \o <<3, 7, 0, 4, 5, 7, 6, 7, 8, 2, 4, 9, 2, 1, 9, 3, 6, 5, 6, 2, 3, 6, 6, 9, 8, 6, 3, 6, 5, 8, 4, 8>>
    \o <<0, 7, 5, 7, 0, 0, 1, 5, 8, 5, 7, 6, 9, 2, 6, 9, 9, 0, 3, 7, 0, 6, 3, 1, 1, 9, 2, 8, 2, 7, 9, 5>>
    \o <<5, 8, 5, 5, 1, 3, 3, 2, 9, 2, 7, 8, 3, 4, 3, 3, 8, 4, 0, 9, 3, 5, 1, 9, 7, 8, 0, 1, 5, 5, 3, 1>>
    \o <<2, 4, 6, 5, 9, 7, 2, 6, 3, 5, 7, 9, 5, 7, 4, 6, 2, 2, 7, 6, 6, 4, 6, 5, 2, 7, 2, 8, 2, 7, 2, 2>>
    \o <<0, 0, 5, 6, 3, 7, 4, 0, 0, 6, 4, 8, 5, 4, 9, 9, 9, 7, 7, 0, 9, 6, 5, 9, 9, 4, 7, 0, 4, 5, 4, 0>>
    \o <<2, 0, 8, 2, 8, 1, 6, 6, 2, 2, 6, 2, 3, 7, 8, 5, 7, 3, 9, 3, 4, 5, 0, 7, 3, 6, 3, 3, 9, 0, 0, 7>>
    \o <<9, 6, 7, 7, 6, 1, 9, 3, 0, 5, 7, 7, 5, 0, 6, 7, 4, 0, 1, 7, 6, 3, 2, 4, 6, 7, 3, 6, 0, 0, 9, 6>>
    \o <<8, 9, 5, 1, 3, 4, 0, 5, 3, 5, 5, 3, 7, 4, 5, 8, 5, 1, 6, 6, 6, 1, 1, 3, 4, 2, 2, 3, 7, 6, 6, 6>>
    \o <<7, 8, 6, 0, 4, 1, 6, 2, 1, 5, 9, 6, 8, 0, 4, 6, 1, 9, 1, 4, 4, 6, 7, 2, 9, 1, 8, 4, 0, 3, 0, 0>>
    \o <<5, 3, 0, 0, 5, 7, 5, 3, 0, 8, 4, 9, 0, 4, 8, 7, 6, 5, 3, 9, 1, 7, 1, 1, 3, 8, 6, 5, 9, 1, 6, 4>>
    \o <<6, 2, 3, 9, 5, 2, 4, 9, 1, 2, 6, 2, 3, 6, 5, 3, 8, 8, 1, 8, 7, 9, 6, 3, 6, 2, 3, 9, 3, 7, 3, 2>>
    \o <<8, 0, 4, 2, 3, 8, 9, 1, 0, 1, 8, 6, 7, 2, 3, 4, 8, 4, 9, 7, 6, 6, 8, 2, 3, 5, 0, 8, 9, 8, 6, 3>>
    \o <<3, 8, 8, 5, 8, 7, 9, 2, 5, 6, 2, 8, 3, 0, 2, 7, 5, 5, 9, 9, 5, 6, 5, 7, 5, 2, 4, 4, 5, 5, 5, 0>>
    \o <<7, 2, 5, 5, 1, 8, 9, 3, 1, 3, 6, 9, 0, 8, 3, 6, 2, 5, 4, 7, 7, 9, 1, 8, 6, 9, 4, 8, 6, 6, 7, 9>>
    \o <<9, 4, 9, 6, 8, 3, 2, 4, 0, 4, 9, 7, 0, 5, 8, 2, 1, 0, 2, 8, 5, 1, 3, 1, 8, 5, 4, 5, 1, 3, 9, 6>>
    \o <<2, 1, 3, 8, 3, 7, 7, 2, 2, 8, 2, 6, 1, 4, 5, 4, 3, 7, 6, 9, 3, 4, 1, 2, 5, 3, 2, 0, 9, 8, 5, 9>>
    \o <<1, 3, 2, 7, 6, 6, 7, 2, 3, 6, 3, 2, 8, 1, 2, 5>>

\* how many of 2^0 .. 2^52 are at most n: j + 1 for 2^j <= n < 2^(j + 1)
Binade(n) == Cardinality({i \in 1..53 : ~DecLess(n, PowersOfTwo[i])})

\* half the distance between the integer n < 2^52 and the doubles next to
\* n + 1 below it, and (n > 0) next to n above it: 2^(j - 53) for
\* 2^j <= n < 2^(j + 1), and 2^-54 for n = 0
HalfUlp(n) == TwoToMinus(54 - Binade(n))

\* the integers n and n + 1 as results
IntegerBelow(n) == IF Len(n) > 6 THEN JsBig ELSE DecimalValue(SmallValue(n), 0)
IntegerAbove(n) == IF Len(n) > 6 THEN JsBig ELSE DecimalValue(SmallValue(n) + 1, 0)

\* the double nearest to n + 0.f, ties to even: n or n + 1 when it is within
\* h of one
RoundWith(n, f, h) ==
  IF Len(n) > 0 /\ FracLe(f, h) THEN IntegerBelow(n)
  ELSE IF FracLe(Complement(f), h) THEN IntegerAbove(n)
  ELSE JsFraction

\* the double nearest to d * 10^e, for digits d with no zero at either end
DecimalNumber(d, e) ==
  IF e >= 0 THEN (IF Len(d) + e > 6 THEN JsBig ELSE JsInt(SmallValue(d) * (10 ^ e)))
  ELSE IF Len(d) + e > 16 THEN JsBig
  ELSE IF Len(d) + e < -323 THEN JsInt(0)
  ELSE IF Len(d) + e = -323 THEN (IF FracLe(d, HalfMinDouble) THEN JsInt(0) ELSE JsFraction)
  ELSE IF Len(d) + e < 0 THEN JsFraction
  ELSE IF ~DecLess(SubSeq(d, 1, Len(d) + e), TwoTo52) THEN JsBig
  ELSE RoundWith(SubSeq(d, 1, Len(d) + e), SubSeq(d, Len(d) + e + 1, Len(d)),
                 HalfUlp(SubSeq(d, 1, Len(d) + e)))

\* an exponent of more than 8 digits counts as 10^8: beyond every length of
\* a mantissa
ExponentValue(ds) ==
  IF Len(StripZeros(ds)) > 8 THEN 100000000 ELSE DigitsValue(StripZeros(ds), Digits)

\* ExponentPart: e, an optional sign, digits; None when x is no such part
ExponentOf(x) ==
  IF Len(x) = 0 THEN None
  ELSE IF x[1] = "-"
    THEN (IF AllDigitsOf(Tail(x), Digits) THEN JsInt(-ExponentValue(Tail(x))) ELSE None)
  ELSE IF x[1] = "+"
    THEN (IF AllDigitsOf(Tail(x), Digits) THEN JsInt(ExponentValue(Tail(x))) ELSE None)
  ELSE IF AllDigitsOf(x, Digits) THEN JsInt(ExponentValue(x)) ELSE None

\* the digits ip.fp with exponent x
MantissaValue(ip, fp, x) ==
  IF Len(StripZeros(ip \o fp)) = 0 THEN JsInt(0)
  ELSE DecimalNumber(DigitsOf(StripTrailingZeros(StripZeros(ip \o fp))),
                     x - Len(fp) + (Len(StripZeros(ip \o fp))
                                      - Len(StripTrailingZeros(StripZeros(ip \o fp)))))

\* the mantissa m = digits, digits.digits, digits. or .digits
MantissaOf(m, x) ==
  IF Len(m) = 0 \/ Len(m) > 2 THEN JsNaN
  ELSE IF \E i \in 1..Len(m) : \E j \in 1..Len(m[i]) : ~IsDigitOf(m[i][j], Digits) THEN JsNaN
  ELSE IF Len(m) = 1 THEN (IF Len(m[1]) = 0 THEN JsNaN ELSE MantissaValue(m[1], <<>>, x))
  ELSE IF Len(m[1]) + Len(m[2]) = 0 THEN JsNaN
  ELSE MantissaValue(m[1], m[2], x)

\* A mantissa, optionally followed by an exponent part
DecimalParts(parts) ==
  IF Len(parts) = 1 THEN MantissaOf(JsSplit(parts[1], <<".">>), 0)
  ELSE IF Len(parts) = 2
    THEN (IF ExponentOf(parts[2]) = None THEN JsNaN
          ELSE MantissaOf(JsSplit(parts[1], <<".">>), ExponentOf(parts[2]).v))
  ELSE JsNaN
\* StrUnsignedDecimalLiteral: Infinity, spelled exactly so, or a decimal
\* literal whose exponent is marked by e or E
Infinity == <<"I", "n", "f", "i", "n", "i", "t", "y">>
UnsignedDecimal(t) ==
  IF t = Infinity THEN JsBig ELSE DecimalParts(JsSplit(FoldCase(t), <<"e">>))

\* Number(s) for a string s (ECMAScript StringToNumber): the prefixes 0x, 0o,
\* 0b and the hexadecimal digits are taken in either case; t is the trimmed
\* string, folded to lower case
NumberOf(raw, t) ==
  IF Len(t) = 0 THEN JsInt(0)
  ELSE IF Len(t) >= 3 /\ t[1] = "0" /\ t[2] = "o"
            /\ AllDigitsOf(SubSeq(t, 3, Len(t)), SubSeq(Digits, 1, 8))
    THEN IntegerLiteral(SubSeq(t, 3, Len(t)), SubSeq(Digits, 1, 8), 7)
  ELSE IF Len(t) >= 3 /\ t[1] = "0" /\ t[2] = "x"
            /\ AllDigitsOf(SubSeq(t, 3, Len(t)), HexDigits)
    THEN IntegerLiteral(SubSeq(t, 3, Len(t)), HexDigits, 5)
  ELSE IF Len(t) >= 3 /\ t[1] = "0" /\ t[2] = "b"
            /\ AllDigitsOf(SubSeq(t, 3, Len(t)), <<"0", "1">>)
    THEN IntegerLiteral(SubSeq(t, 3, Len(t)), <<"0", "1">>, 20)
  ELSE IF raw[1] = "-" THEN JsNegate(UnsignedDecimal(Tail(raw)))
  ELSE IF raw[1] = "+" THEN UnsignedDecimal(Tail(raw))
  ELSE UnsignedDecimal(raw)
JsNumber(s) == NumberOf(JsTrim(s), FoldCase(JsTrim(s)))

-----------------------------------------------------------------------------
(* namespace ipv4 *)

ipv4_MAX_SIZE == <<255, 255, 255, 255>>
ipv4_MIN_SIZE == <<0, 0, 0, 0>>
ipv4_MAX_RANGE == 32
ipv4_MIN_RANGE == 0

\* [(ip >> 24) & 0xff, (ip >> 16) & 0xff, (ip >> 8) & 0xff, ip & 0xff]
OctetsOfNumber(ip) == Arr([i \in 1..4 |-> ToInt32(ip)[i] % 256])

\* parts.map(Number)
MapNumber(parts) == Arr([i \in 1..Len(parts) |-> JsNumber(parts[i])])

\* ip.split('.').map(Number)
OctetsOfString(s) == MapNumber(JsSplit(s, <<".">>))

\* an array of integers as the JS numbers it holds, and back
JsInts(s) == Arr([i \in 1..Len(s) |-> JsInt(s[i])])
IntsOf(s) == Arr([i \in 1..Len(s) |-> s[i].v])

\* octets.length === 4, and every octet an integer in 0..255
ValidOctets(octets) ==
  /\ Len(octets) = 4
  /\ \A i \in 1..4 : octets[i].k = "int" /\ octets[i].v >= 0 /\ octets[i].v <= 255

ipv4_isValidAddress(ip) ==
  IF ip.k \in {"null", "undefined"} THEN FALSE
  ELSE IF ip.k \notin {"string", "number", "array"} THEN FALSE
  ELSE IF ip.k = "number" /\ (NumLt(ip.v, ipv4_MIN_SIZE) \/ NumGt(ip.v, ipv4_MAX_SIZE)) THEN FALSE
  ELSE ValidOctets(IF ip.k = "string" THEN OctetsOfString(ip.v)
                   ELSE IF ip.k = "number" THEN JsInts(OctetsOfNumber(ip.v))
                   ELSE JsInts(ip.v))

\* the caller has checked ipv4_isValidAddress(ip)
ipv4_parseOctets(ip) ==
  IF ~ipv4_isValidAddress(ip) THEN Throw("InvalidIpv4AddressError")
  ELSE IF ip.k = "string" THEN IntsOf(OctetsOfString(ip.v))
  ELSE IF ip.k = "number" THEN OctetsOfNumber(ip.v)
  ELSE ip.v

-----------------------------------------------------------------------------
(* class Ipv4Address *)

\* the constructor without its validity check
Ipv4Address_new_unchecked(ip) == [k |-> "Ipv4Address", octets |-> ipv4_parseOctets(ip)]

Ipv4Address_new(ip) ==
  IF ~ipv4_isValidAddress(ip) THEN Throw("InvalidIpv4AddressError")
  ELSE [k |-> "Ipv4Address", octets |-> ipv4_parseOctets(ip)]

Ipv4Address_octets(this) == this.octets

\* this.#octets.join('.')
Ipv4Address_toString(this) ==
  JsJoin(Arr([i \in 1..4 |-> JsToString(this.octets[i], Digits)]), <<".">>)

\* (o0 << 24) | (o1 << 16) | (o2 << 8) | o3 : the operands of << and | are
\* int32, and so are their results; the octets are the integers the array
\* holds now, in 0..255 or not
Ipv4Address_toNumber(this) ==
  JsOr(JsOr(JsOr(JsShl(NumOfInt(8, 4, this.octets[1]), 24),
                 JsShl(NumOfInt(8, 4, this.octets[2]), 16)),
            JsShl(NumOfInt(8, 4, this.octets[3]), 8)),
       NumOfInt(8, 4, this.octets[4]))

Ipv4Address_hasNextAddress(this) == NumLt(Ipv4Address_toNumber(this), ipv4_MAX_SIZE)

Ipv4Address_nextAddress(this) ==
  LET nextAddress == NumAdd(256, Ipv4Address_toNumber(this), NumOfInt(8, 4, 1)) IN
  IF NumGt(nextAddress, ipv4_MAX_SIZE) THEN Undefined
  ELSE Ipv4Address_new(NumberV(nextAddress))

Ipv4Address_hasPreviousAddress(this) == NumGt(Ipv4Address_toNumber(this), ipv4_MIN_SIZE)

Ipv4Address_previousAddress(this) ==
  LET prevAddress == NumSub(256, Ipv4Address_toNumber(this), NumOfInt(8, 4, 1)) IN
  IF NumLt(prevAddress, ipv4_MIN_SIZE) THEN Undefined
  ELSE Ipv4Address_new(NumberV(prevAddress))

\* the argument of a comparator: an Ipv4Address as it is, a literal through
\* the constructor
Ipv4Address_operand(otherAddress) ==
  IF otherAddress.k = "Ipv4Address" THEN otherAddress ELSE Ipv4Address_new(otherAddress)

\* x === y, x > y, x >= y, x < y, x <= y
NumRel(rel, x, y) ==
  CASE rel = "equals" -> x = y
    [] rel = "isGreaterThan" -> NumGt(x, y)
    [] rel = "isGreaterThanOrEqual" -> NumGe(x, y)
    [] rel = "isLessThan" -> NumLt(x, y)
    [] rel = "isLessThanOrEqual" -> NumLe(x, y)

\* o is the operand as an Ipv4Address, or what its construction threw
Ipv4CompareTo(this, o, rel) ==
  IF o.k = "throw" THEN o
  ELSE Bool(NumRel(rel, Ipv4Address_toNumber(this), Ipv4Address_toNumber(o)))

Ipv4Address_compare(this, otherAddress, rel) ==
  Ipv4CompareTo(this, Ipv4Address_operand(otherAddress), rel)


-----------------------------------------------------------------------------
(* namespace ipv6 *)

ipv6_MAX_SIZE == <<65535, 65535, 65535, 65535, 65535, 65535, 65535, 65535>>
ipv6_MIN_SIZE == <<0, 0, 0, 0, 0, 0, 0, 0>>
ipv6_MAX_RANGE == 128
ipv6_MIN_RANGE == 0

\* ip.match(/^(::ffff:)(\d{1,3}\.\d{1,3}\.\d{1,3}\.\d{1,3})$/i): the dotted
\* part when the string matches, <<>> when it does not
Ipv4MappedMatch(s) ==
  LET prefix == <<":", ":", "f", "f", "f", "f", ":">>
      rest == SubSeq(s, Len(prefix) + 1, Len(s))
      quads == JsSplit(rest, <<".">>)
  IN  IF /\ IsPrefixAt(FoldCase(s), prefix, 1)
         /\ Len(quads) = 4
         /\ \A i \in 1..4 : AllDigitsOf(quads[i], Digits) /\ Len(quads[i]) <= 3
        THEN rest
        ELSE <<>>

\* parts[0] ? parts[0].split(':') : []
ColonParts(part) == IF Len(part) = 0 THEN <<>> ELSE JsSplit(part, <<":">>)

\* one group too few
MissingCount_seven(parts) == 7 - Len(ColonParts(parts[1])) - Len(ColonParts(parts[2]))

\* 8 - leftParts.length - rightParts.length, parts = ip.split('::')
MissingCount(parts) == 8 - Len(ColonParts(parts[1])) - Len(ColonParts(parts[2]))

\* Array(missingCount).fill('0')
ZeroParts(missingCount) == Arr([i \in 1..missingCount |-> <<"0">>])

\* [...leftParts, ...middleParts, ...rightParts].join(':'), parts = ip.split('::')
ExpandedIp(parts) ==
  JsJoin(ColonParts(parts[1]) \o ZeroParts(MissingCount(parts)) \o ColonParts(parts[2]),
         <<":">>)

\* expandedIp.split(':'), parts = ip.split('::')
ExpandedHextets(s, parts) ==
  IF Len(parts) = 1 THEN JsSplit(s, <<":">>) ELSE JsSplit(ExpandedIp(parts), <<":">>)

\* every octet of the dotted part in 0..255
ValidMappedOctets(octets) ==
  /\ Len(octets) = 4
  /\ \A i \in 1..4 : ~(octets[i].v < 0 \/ octets[i].v > 255)

\* eight groups, each of 1 to 4 hexadecimal digits
ValidHextetStrings(hextets) ==
  /\ Len(hextets) = 8
  /\ \A i \in 1..8 :
       /\ Len(hextets[i]) # 0 /\ Len(hextets[i]) <= 4
       /\ AllDigitsOf(FoldCase(hextets[i]), HexDigits)
       /\ DigitsValue(FoldCase(hextets[i]), HexDigits) <= 65535

\* the string branch of isValidAddress; mapped = the dotted part of an
\* IPv4-mapped string, parts = ip.split('::')
ValidIpv6String(s, mapped, parts) ==
  IF mapped # <<>> THEN ValidMappedOctets(OctetsOfString(mapped))
  ELSE IF Len(parts) - 1 > 1 THEN FALSE
  ELSE IF Len(parts) = 2 /\ MissingCount(parts) < 0 THEN FALSE
  ELSE ValidHextetStrings(ExpandedHextets(s, parts))

ipv6_isValidAddress(ip) ==
  IF ip.k \in {"null", "undefined"} THEN FALSE
  ELSE IF ip.k = "bigint" THEN NumGe(ip.v, ipv6_MIN_SIZE) /\ NumLe(ip.v, ipv6_MAX_SIZE)
  ELSE IF ip.k = "array"
    THEN Len(ip.v) = 8 /\ \A i \in 1..8 : ip.v[i] >= 0 /\ ip.v[i] <= 65535
  ELSE IF ip.k # "string" THEN FALSE
  ELSE ValidIpv6String(ip.v, Ipv4MappedMatch(ip.v), JsSplit(ip.v, <<":", ":">>))

\* value >> 16n, value >= 0
BigShr16(value) ==
  Arr([i \in 1..8 |-> IF i = 1 THEN value[1] \div 65536
                  ELSE IF i = 2 THEN value[1] % 65536
                  ELSE value[i - 1]])

\* for (i = 0; i < 8; i++) { hextets.unshift(Number(value & 0xffffn)); value >>= 16n }
RECURSIVE HextetsOfBigInt(_, _, _)
HextetsOfBigInt(value, i, hextets) ==
  IF i >= 8 THEN hextets
  ELSE HextetsOfBigInt(BigShr16(value), i + 1, <<value[8]>> \o hextets)

\* [0, 0, 0, 0, 0, 0xffff, (o0 << 8) | o1, (o2 << 8) | o3]
MappedHextets(octets) ==
  <<0, 0, 0, 0, 0, 65535,
    BitOr(octets[1].v * 256, octets[2].v), BitOr(octets[3].v * 256, octets[4].v)>>

\* hextets.map(h => Number.parseInt(h, 16)) on groups of hexadecimal digits
MapParseHex(hextets) ==
  Arr([i \in 1..Len(hextets) |-> DigitsValue(FoldCase(hextets[i]), HexDigits)])

\* the string branch of parseHextets; mapped = the dotted part of an
\* IPv4-mapped string
HextetsOfString(s, mapped) ==
  IF mapped # <<>> THEN MappedHextets(OctetsOfString(mapped))
  ELSE MapParseHex(ExpandedHextets(s, JsSplit(s, <<":", ":">>)))

ipv6_parseHextets(ip) ==
  IF ~ipv6_isValidAddress(ip) THEN Throw("InvalidIpv6AddressError")
  ELSE IF ip.k = "bigint" THEN HextetsOfBigInt(ip.v, 0, <<>>)
  ELSE IF ip.k = "array" THEN ip.v
  ELSE HextetsOfString(ip.v, Ipv4MappedMatch(ip.v))

-----------------------------------------------------------------------------
(* class Ipv6Address *)

Ipv6Address_new(ip) ==
  IF ~ipv6_isValidAddress(ip) THEN Throw("InvalidIpv6AddressError")
  ELSE [k |-> "Ipv6Address", hextets |-> ipv6_parseHextets(ip)]

Ipv6Address_hextets(this) == this.hextets

\* the step with >= for >: the last of the longest runs wins
ZeroRunStep_lastWins(hextets, i, st) ==
  IF hextets[i + 1] = 0
    THEN IF st.currentStart = -1
           THEN [st EXCEPT !.currentStart = i, !.currentLength = 1]
           ELSE [st EXCEPT !.currentLength = @ + 1]
    ELSE LET take == st.currentLength >= st.longestLength /\ st.currentLength > 1 IN
         [longestStart |-> IF take THEN st.currentStart ELSE st.longestStart,
          longestLength |-> IF take THEN st.currentLength ELSE st.longestLength,
          currentStart |-> -1,
          currentLength |-> 0]

\* one round of the loop of toString over hextet i (0-based)
ZeroRunStep(hextets, i, st) ==
  IF hextets[i + 1] = 0
    THEN IF st.currentStart = -1
           THEN [st EXCEPT !.currentStart = i, !.currentLength = 1]
           ELSE [st EXCEPT !.currentLength = @ + 1]
    ELSE LET take == st.currentLength > st.longestLength /\ st.currentLength > 1 IN
         [longestStart |-> IF take THEN st.currentStart ELSE st.longestStart,
          longestLength |-> IF take THEN st.currentLength ELSE st.longestLength,
          currentStart |-> -1,
          currentLength |-> 0]

RECURSIVE ZeroRunLoop(_, _, _)
ZeroRunLoop(hextets, i, st) ==
  IF i >= 8 THEN st ELSE ZeroRunLoop(hextets, i + 1, ZeroRunStep(hextets, i, st))

\* the run toString compresses: [longestStart, longestLength], longestStart = -1
\* when there is none
LongestZeroRun(hextets) ==
  LET st == ZeroRunLoop(hextets, 0,
              [longestStart |-> -1, longestLength |-> 0,
               currentStart |-> -1, currentLength |-> 0])
      take == st.currentLength > st.longestLength /\ st.currentLength > 1
  IN  [longestStart |-> IF take THEN st.currentStart ELSE st.longestStart,
       longestLength |-> IF take THEN st.currentLength ELSE st.longestLength]

\* hextets.map(h => h.toString()): the radix forgotten
HexStrings_decimal(hs) == Arr([i \in 1..Len(hs) |-> JsToString(hs[i], Digits)])

\* hextets.map(h => h.toString(16))
HexStrings(hs) == Arr([i \in 1..Len(hs) |-> JsToString(hs[i], HexDigits)])

Ipv6Address_toString(this) ==
  LET run == LongestZeroRun(this.hextets) IN
  IF run.longestStart = -1 THEN JsJoin(HexStrings(this.hextets), <<":">>)
  ELSE LET before == HexStrings(SubSeq(this.hextets, 1, run.longestStart))
           after == HexStrings(SubSeq(this.hextets,
                                      run.longestStart + run.longestLength + 1, 8))
       IN  IF Len(before) = 0 /\ Len(after) = 0 THEN <<":", ":">>
           ELSE IF Len(before) = 0 THEN <<":", ":">> \o JsJoin(after, <<":">>)
           ELSE IF Len(after) = 0 THEN JsJoin(before, <<":">>) \o <<":", ":">>
           ELSE JsJoin(before, <<":">>) \o <<":", ":">> \o JsJoin(after, <<":">>)

\* result << 16n, result >= 0
BigShl16(result) ==
  Arr([i \in 1..8 |-> IF i = 1 THEN result[1] * 65536 + result[2]
                  ELSE IF i < 8 THEN result[i + 1]
                  ELSE 0])

\* for (i = 0; i < 8; i++) result = (result << 16n) | BigInt(hextets[i])
RECURSIVE BigIntOfHextets(_, _, _)
BigIntOfHextets(hextets, i, result) ==
  IF i >= 8 THEN result
  ELSE BigIntOfHextets(hextets, i + 1,
                       BigOr(BigShl16(result), NumOfInt(16, 8, hextets[i + 1])))

Ipv6Address_toBigInt(this) == BigIntOfHextets(this.hextets, 0, ipv6_MIN_SIZE)

Ipv6Address_hasNextAddress(this) == NumLt(Ipv6Address_toBigInt(this), ipv6_MAX_SIZE)

Ipv6Address_nextAddress(this) ==
  LET nextAddress == NumAdd(65536, Ipv6Address_toBigInt(this), NumOfInt(16, 8, 1)) IN
  IF NumGt(nextAddress, ipv6_MAX_SIZE) THEN Undefined
  ELSE Ipv6Address_new(BigIntV(nextAddress))

Ipv6Address_hasPreviousAddress(this) == NumGt(Ipv6Address_toBigInt(this), ipv6_MIN_SIZE)

Ipv6Address_previousAddress(this) ==
  LET prevAddress == NumSub(65536, Ipv6Address_toBigInt(this), NumOfInt(16, 8, 1)) IN
  IF NumLt(prevAddress, ipv6_MIN_SIZE) THEN Undefined
  ELSE Ipv6Address_new(BigIntV(prevAddress))

Ipv6Address_operand(otherAddress) ==
  IF otherAddress.k = "Ipv6Address" THEN otherAddress ELSE Ipv6Address_new(otherAddress)

\* o is the operand as an Ipv6Address, or what its construction threw
Ipv6CompareTo(this, o, rel) ==
  IF o.k = "throw" THEN o
  ELSE Bool(NumRel(rel, Ipv6Address_toBigInt(this), Ipv6Address_toBigInt(o)))

Ipv6Address_compare(this, otherAddress, rel) ==
  Ipv6CompareTo(this, Ipv6Address_operand(otherAddress), rel)


-----------------------------------------------------------------------------
(* CIDR literals.  A range is a small JS number, held as JsInt(n); a tuple   *)
(* literal is ArrayV(<<address literal, range>>), an object literal is       *)
(* [k |-> "object", address |-> address literal, range |-> range].           *)

\* parseInt(s, 10): optional leading whitespace, optional sign, then the
\* longest prefix of decimal digits; NaN when that prefix is empty
DigitPrefix(s) == SubSeq(s, 1, LeadingIn(s, {Digits[i] : i \in 1..10}))

\* the range parsed as a whole number literal, Number(s), in place of parseInt
JsParseInt_whole(s) == JsNumber(s)

\* body is s after its white space and sign
ParseIntOf(body, neg) ==
  IF Len(DigitPrefix(body)) = 0 THEN JsNaN
  ELSE IF Len(StripZeros(DigitPrefix(body))) > 8 THEN JsBig
  ELSE JsInt((IF neg THEN -1 ELSE 1) * DigitsValue(StripZeros(DigitPrefix(body)), Digits))
ParseIntSigned(t) ==
  IF Len(t) > 0 /\ t[1] \in {"+", "-"} THEN ParseIntOf(Tail(t), t[1] = "-")
  ELSE ParseIntOf(t, FALSE)
JsParseInt(s) == ParseIntSigned(SubSeq(s, LeadingIn(s, WhiteSpace) + 1, Len(s)))

\* the (address, range) a CIDR literal decomposes into, or None when its shape
\* is rejected
CidrParts(cidr) ==
  IF cidr.k = "string"
    THEN LET parts == JsSplit(cidr.v, <<"/">>) IN
         IF Len(parts) # 2 THEN None
         ELSE [k |-> "parts", address |-> StringV(parts[1]), range |-> JsParseInt(parts[2])]
  ELSE IF cidr.k = "array"
    THEN IF Len(cidr.v) # 2 THEN None
         ELSE IF cidr.v[1].k \in {"null", "undefined"} THEN None
         ELSE IF cidr.v[2].k \notin {"int", "fraction", "big", "NaN"} THEN None
         ELSE [k |-> "parts", address |-> cidr.v[1], range |-> cidr.v[2]]
  ELSE IF cidr.k = "object"
    THEN IF cidr.address.k \in {"null", "undefined"} THEN None
         ELSE IF cidr.range.k \notin {"int", "fraction", "big", "NaN"} THEN None
         ELSE [k |-> "parts", address |-> cidr.address, range |-> cidr.range]
  ELSE None

\* the checks without the upper bound of the range
Ipv4ValidParts_noUpper(p) ==
  IF p = None THEN FALSE
  ELSE IF ~ipv4_isValidAddress(p.address) THEN FALSE
  ELSE p.range.k = "int" /\ p.range.v >= ipv4_MIN_RANGE

\* p is what the literal decomposes into
Ipv4ValidParts(p) ==
  IF p = None THEN FALSE
  ELSE IF ~ipv4_isValidAddress(p.address) THEN FALSE
  ELSE IF p.range.k # "int" \/ p.range.v < ipv4_MIN_RANGE \/ p.range.v > ipv4_MAX_RANGE
    THEN FALSE
  ELSE TRUE

ipv4_isValidCIDR(cidr) ==
  IF cidr.k \in {"null", "undefined"} THEN FALSE
  ELSE Ipv4ValidParts(CidrParts(cidr))

\* p is what the literal decomposes into
Ipv6ValidParts(p) ==
  IF p = None THEN FALSE
  ELSE IF ~ipv6_isValidAddress(p.address) THEN FALSE
  ELSE IF p.range.k # "int" \/ p.range.v < ipv6_MIN_RANGE \/ p.range.v > ipv6_MAX_RANGE
    THEN FALSE
  ELSE TRUE

ipv6_isValidCIDR(cidr) ==
  IF cidr.k \in {"null", "undefined"} THEN FALSE
  ELSE Ipv6ValidParts(CidrParts(cidr))

-----------------------------------------------------------------------------
(* class Ipv4Cidr *)

\* this.#address = ip; this.#range = range, unless constructing ip threw
Ipv4CidrOf(ip, range) ==
  IF ip.k = "throw" THEN ip ELSE [k |-> "Ipv4Cidr", address |-> ip, range |-> range]

\* p is what the literal decomposes into
Ipv4CidrFromParts(p) == Ipv4CidrOf(Ipv4Address_new(p.address), p.range.v)

Ipv4Cidr_new(address) ==
  IF ~ipv4_isValidCIDR(address) THEN Throw("InvalidIpv4CidrError")
  ELSE IF address.k \in {"string", "array", "object"}
    THEN Ipv4CidrFromParts(CidrParts(address))
  ELSE Throw("InvalidIpv4CidrError")

\* the tuple literal [n, range] the methods build new blocks from
Ipv4Tuple(n, range) == ArrayV(<<NumberV(n), JsInt(range)>>)

Ipv4Cidr_baseAddress(this) == this.address
Ipv4Cidr_range(this) == this.range

\* 2 ** (32 - range)
Ipv4Cidr_addressCount(this) == NumPow2(8, 4, 32 - this.range)

Ipv4Cidr_operand(other) == IF other.k = "Ipv4Cidr" THEN other ELSE Ipv4Cidr_new(other)

Ipv4Cidr_hasNextCIDR(this) ==
  LET nextBaseAddressNumber ==
        NumAdd(256, Ipv4Address_toNumber(this.address), Ipv4Cidr_addressCount(this))
  IN  NumLe(nextBaseAddressNumber, ipv4_MAX_SIZE)

Ipv4Cidr_nextCIDR(this) ==
  LET nextBaseAddressNumber ==
        NumAdd(256, Ipv4Address_toNumber(this.address), Ipv4Cidr_addressCount(this))
  IN  IF NumGt(nextBaseAddressNumber, ipv4_MAX_SIZE) THEN Undefined
      ELSE Ipv4Cidr_new(Ipv4Tuple(nextBaseAddressNumber, this.range))

Ipv4Cidr_hasPreviousCIDR(this) ==
  NumGe(Ipv4Address_toNumber(this.address), Ipv4Cidr_addressCount(this))

Ipv4Cidr_previousCIDR(this) ==
  LET prevBaseAddressNumber ==
        NumSub(256, Ipv4Address_toNumber(this.address), Ipv4Cidr_addressCount(this))
  IN  IF NumLt(prevBaseAddressNumber, ipv4_MIN_SIZE) THEN Undefined
      ELSE Ipv4Cidr_new(Ipv4Tuple(prevBaseAddressNumber, this.range))

Ipv4Cidr_includes(this, ip) ==
  LET ipNumber == Ipv4Address_toNumber(ip)
      baseNumber == Ipv4Address_toNumber(this.address)
      count == Ipv4Cidr_addressCount(this)
  IN  NumGe(ipNumber, baseNumber) /\ NumLt(ipNumber, NumAdd(256, baseNumber, count))

\* the interval test with its first half only
Ipv4OverlapsWith_oneSided(this, otherCidr) ==
  IF otherCidr.k = "throw" THEN otherCidr
  ELSE Bool(NumLt(Ipv4Address_toNumber(this.address),
                  NumAdd(256, Ipv4Address_toNumber(otherCidr.address),
                         Ipv4Cidr_addressCount(otherCidr))))

\* otherCidr is the operand as an Ipv4Cidr, or what its construction threw
Ipv4OverlapsWith(this, otherCidr) ==
  IF otherCidr.k = "throw" THEN otherCidr
  ELSE LET thisBase == Ipv4Address_toNumber(this.address)
           thisCount == Ipv4Cidr_addressCount(this)
           otherBase == Ipv4Address_toNumber(otherCidr.address)
           otherCount == Ipv4Cidr_addressCount(otherCidr)
       IN  Bool(/\ NumLt(thisBase, NumAdd(256, otherBase, otherCount))
                /\ NumLt(otherBase, NumAdd(256, thisBase, thisCount)))

Ipv4Cidr_overlaps(this, other) == Ipv4OverlapsWith(this, Ipv4Cidr_operand(other))

\* for (i = 0; i < totalSubnets; i++) subranges.push(new Ipv4Cidr([base + i * size, newRange]))
RECURSIVE Ipv4SubnetLoop(_, _, _, _)

\* subranges.push(sub), unless constructing sub threw; then the next round
Ipv4SubnetPush(this, newRange, i, subranges, sub) ==
  IF sub.k = "throw" THEN sub
  ELSE Ipv4SubnetLoop(this, newRange, i + 1, Append(subranges, sub))

Ipv4SubnetLoop(this, newRange, i, subranges) ==
  IF i >= 2 ^ (newRange - this.range) THEN ArrayV(subranges)
  ELSE Ipv4SubnetPush(this, newRange, i, subranges,
         Ipv4Cidr_new(Ipv4Tuple(
           NumAdd(256, Ipv4Address_toNumber(this.address), NumMulSmall(256, i, NumPow2(8, 4, 32 - newRange))),
           newRange)))

Ipv4Cidr_subnet(this, newRange) ==
  IF newRange < this.range \/ newRange > ipv4_MAX_RANGE
    THEN Throw("InvalidIpv4CidrRangeError")
    ELSE Ipv4SubnetLoop(this, newRange, 0, <<>>)

\* for (const range of ranges) { ... }, ranges[i] being the element at hand
RECURSIVE Ipv4SubnetByLoop(_, _, _, _, _, _)

\* the message of the bounds error formats new Ipv4Address(currentBase), which
\* throws first if currentBase is not an address
Ipv4SubnetByExceeds(at) ==
  IF at.k = "throw" THEN at ELSE Throw("InvalidIpv4CidrRangeError")

\* subranges.push(sub), unless constructing sub threw; currentBase += subnetSize
Ipv4SubnetByPush(this, ranges, i, currentBase, endAddress, subranges, sub) ==
  IF sub.k = "throw" THEN sub
  ELSE Ipv4SubnetByLoop(this, ranges, i + 1,
         NumAdd(256, currentBase, NumPow2(8, 4, 32 - ranges[i])),
         endAddress, Append(subranges, sub))

Ipv4SubnetByLoop(this, ranges, i, currentBase, endAddress, subranges) ==
  IF i > Len(ranges) THEN ArrayV(subranges)
  ELSE IF ranges[i] < this.range \/ ranges[i] > ipv4_MAX_RANGE
    THEN Throw("InvalidIpv4CidrRangeError")
  ELSE IF NumGt(NumAdd(256, currentBase, NumPow2(8, 4, 32 - ranges[i])), endAddress)
    THEN Ipv4SubnetByExceeds(Ipv4Address_new(NumberV(currentBase)))
  ELSE Ipv4SubnetByPush(this, ranges, i, currentBase, endAddress, subranges,
         Ipv4Cidr_new(Ipv4Tuple(currentBase, ranges[i])))

Ipv4Cidr_subnetBy(this, ranges) ==
  Ipv4SubnetByLoop(this, ranges, 1, Ipv4Address_toNumber(this.address),
    NumAdd(256, Ipv4Address_toNumber(this.address), Ipv4Cidr_addressCount(this)), <<>>)

\* this.#address.toNumber() + 1
Ipv4Cidr_getFirstUsableAddress(this) ==
  IF this.range = 32 THEN Undefined
  ELSE Ipv4Address_new(NumberV(NumAdd(256, Ipv4Address_toNumber(this.address), NumOfInt(8, 4, 1))))

\* this.#address.toNumber() + this.addressCount() - 2
Ipv4Cidr_getLastUsableAddress(this) ==
  IF this.range = 32 THEN Undefined
  ELSE Ipv4Address_new(NumberV(
         NumSub(256, NumAdd(256, Ipv4Address_toNumber(this.address), Ipv4Cidr_addressCount(this)),
                NumOfInt(8, 4, 2))))

\* the generator addresses() returns: suspended before its first statement
Ipv4Cidr_addresses(this) ==
  [k |-> "generator", cidr |-> this, limit |-> Undefined, i |-> 0, done |-> FALSE,
   value |-> None]

\* yield v, unless constructing v threw: the throw ends the generator
Ipv4Yield(g, v) ==
  IF v.k = "throw" THEN [g EXCEPT !.done = TRUE, !.value = v]
  ELSE [g EXCEPT !.i = @ + 1, !.value = v]

\* for (let i = 0; i < count; i++) yield new Ipv4Address(baseNumber + i)
Ipv4Generator_next(g) ==
  IF g.done THEN [g EXCEPT !.value = Undefined]
  ELSE IF NumLt(NumOfInt(8, 4, g.i), Ipv4Cidr_addressCount(g.cidr))
    THEN Ipv4Yield(g, Ipv4Address_new(NumberV(
           NumAdd(256, Ipv4Address_toNumber(g.cidr.address), NumOfInt(8, 4, g.i)))))
  ELSE [g EXCEPT !.done = TRUE, !.value = Undefined]

\* the mask without the case of range 0: the shift count 32 is taken mod 32
Ipv4MaskNumber_shiftOnly(this) ==
  ToUint32(JsShl(JsNot(NumOfInt(8, 4, 0)), 32 - this.range))

\* this.#range === 0 ? 0 : (~0 << (32 - this.#range)) >>> 0
Ipv4MaskNumber(this) ==
  IF this.range = 0 THEN NumOfInt(8, 4, 0)
  ELSE ToUint32(JsShl(JsNot(NumOfInt(8, 4, 0)), 32 - this.range))

Ipv4Cidr_netmask(this) == Ipv4Address_new(NumberV(Ipv4MaskNumber(this)))

\* ~maskNumber >>> 0
Ipv4Cidr_hostmask(this) == Ipv4Address_new(NumberV(ToUint32(JsNot(Ipv4MaskNumber(this)))))

\* the network number without >>> 0
Ipv4NetworkNumber_signed(this) ==
  JsAnd(Ipv4Address_toNumber(this.address), Ipv4MaskNumber(this))

\* (this.#address.toNumber() & maskNumber) >>> 0
Ipv4NetworkNumber(this) ==
  ToUint32(JsAnd(Ipv4Address_toNumber(this.address), Ipv4MaskNumber(this)))

Ipv4Cidr_network(this) == Ipv4Address_new(NumberV(Ipv4NetworkNumber(this)))

Ipv4Cidr_networkCIDR(this) == Ipv4Cidr_new(Ipv4Tuple(Ipv4NetworkNumber(this), this.range))

\* otherCidr is the operand as an Ipv4Cidr, or what its construction threw
Ipv4EqualsTo(this, otherCidr) ==
  IF otherCidr.k = "throw" THEN otherCidr
  ELSE Bool(/\ Ipv4Address_compare(this.address, otherCidr.address, "equals").v
            /\ this.range = otherCidr.range)

Ipv4Cidr_equals(this, other) == Ipv4EqualsTo(this, Ipv4Cidr_operand(other))

-----------------------------------------------------------------------------
(* class Ipv6Cidr *)

\* this.#address = ip; this.#range = range, unless constructing ip threw
Ipv6CidrOf(ip, range) ==
  IF ip.k = "throw" THEN ip ELSE [k |-> "Ipv6Cidr", address |-> ip, range |-> range]

\* p is what the literal decomposes into
Ipv6CidrFromParts(p) == Ipv6CidrOf(Ipv6Address_new(p.address), p.range.v)

Ipv6Cidr_new(address) ==
  IF ~ipv6_isValidCIDR(address) THEN Throw("InvalidIpv6CidrError")
  ELSE IF address.k \in {"string", "array", "object"}
    THEN Ipv6CidrFromParts(CidrParts(address))
  ELSE Throw("InvalidIpv6CidrError")

\* the tuple literal [n, range] the methods build new blocks from
Ipv6Tuple(n, range) == ArrayV(<<BigIntV(n), JsInt(range)>>)

Ipv6Cidr_baseAddress(this) == this.address
Ipv6Cidr_range(this) == this.range

\* 1n << BigInt(128 - range)
Ipv6Cidr_addressCount(this) == NumPow2(16, 8, 128 - this.range)

Ipv6Cidr_operand(other) == IF other.k = "Ipv6Cidr" THEN other ELSE Ipv6Cidr_new(other)

Ipv6Cidr_hasNextCIDR(this) ==
  LET nextBaseBigInt ==
        NumAdd(65536, Ipv6Address_toBigInt(this.address), Ipv6Cidr_addressCount(this))
  IN  NumLe(nextBaseBigInt, ipv6_MAX_SIZE)

Ipv6Cidr_nextCIDR(this) ==
  LET nextBaseBigInt ==
        NumAdd(65536, Ipv6Address_toBigInt(this.address), Ipv6Cidr_addressCount(this))
  IN  IF NumGt(nextBaseBigInt, ipv6_MAX_SIZE) THEN Undefined
      ELSE Ipv6Cidr_new(Ipv6Tuple(nextBaseBigInt, this.range))

Ipv6Cidr_hasPreviousCIDR(this) ==
  NumGe(Ipv6Address_toBigInt(this.address), Ipv6Cidr_addressCount(this))

Ipv6Cidr_previousCIDR(this) ==
  LET prevBaseBigInt ==
        NumSub(65536, Ipv6Address_toBigInt(this.address), Ipv6Cidr_addressCount(this))
  IN  IF NumLt(prevBaseBigInt, ipv6_MIN_SIZE) THEN Undefined
      ELSE Ipv6Cidr_new(Ipv6Tuple(prevBaseBigInt, this.range))

Ipv6Cidr_includes(this, ip) ==
  LET ipBigInt == Ipv6Address_toBigInt(ip)
      baseBigInt == Ipv6Address_toBigInt(this.address)
      count == Ipv6Cidr_addressCount(this)
  IN  NumGe(ipBigInt, baseBigInt) /\ NumLt(ipBigInt, NumAdd(65536, baseBigInt, count))

\* otherCidr is the operand as an Ipv6Cidr, or what its construction threw
Ipv6OverlapsWith(this, otherCidr) ==
  IF otherCidr.k = "throw" THEN otherCidr
  ELSE LET thisBase == Ipv6Address_toBigInt(this.address)
           thisCount == Ipv6Cidr_addressCount(this)
           otherBase == Ipv6Address_toBigInt(otherCidr.address)
           otherCount == Ipv6Cidr_addressCount(otherCidr)
       IN  Bool(/\ NumLt(thisBase, NumAdd(65536, otherBase, otherCount))
                /\ NumLt(otherBase, NumAdd(65536, thisBase, thisCount)))

Ipv6Cidr_overlaps(this, other) == Ipv6OverlapsWith(this, Ipv6Cidr_operand(other))

\* for (i = 0n; i < totalSubnets; i++) subranges.push(new Ipv6Cidr([base + i * size, newRange]))
RECURSIVE Ipv6SubnetLoop(_, _, _, _)

\* subranges.push(sub), unless constructing sub threw; then the next round
Ipv6SubnetPush(this, newRange, i, subranges, sub) ==
  IF sub.k = "throw" THEN sub
  ELSE Ipv6SubnetLoop(this, newRange, i + 1, Append(subranges, sub))

Ipv6SubnetLoop(this, newRange, i, subranges) ==
  IF i >= 2 ^ (newRange - this.range) THEN ArrayV(subranges)
  ELSE Ipv6SubnetPush(this, newRange, i, subranges,
         Ipv6Cidr_new(Ipv6Tuple(
           NumAdd(65536, Ipv6Address_toBigInt(this.address), NumMulSmall(65536, i, NumPow2(16, 8, 128 - newRange))),
           newRange)))

Ipv6Cidr_subnet(this, newRange) ==
  IF newRange < this.range \/ newRange > ipv6_MAX_RANGE
    THEN Throw("InvalidIpv6CidrRangeError")
    ELSE Ipv6SubnetLoop(this, newRange, 0, <<>>)

\* for (const range of ranges) { ... }, ranges[i] being the element at hand
RECURSIVE Ipv6SubnetByLoop(_, _, _, _, _, _)

\* the message of the bounds error formats new Ipv6Address(currentBase), which
\* throws first if currentBase is not an address
Ipv6SubnetByExceeds(at) ==
  IF at.k = "throw" THEN at ELSE Throw("InvalidIpv6CidrRangeError")

\* subranges.push(sub), unless constructing sub threw; currentBase += subnetSize
Ipv6SubnetByPush(this, ranges, i, currentBase, endAddress, subranges, sub) ==
  IF sub.k = "throw" THEN sub
  ELSE Ipv6SubnetByLoop(this, ranges, i + 1,
         NumAdd(65536, currentBase, NumPow2(16, 8, 128 - ranges[i])),
         endAddress, Append(subranges, sub))

Ipv6SubnetByLoop(this, ranges, i, currentBase, endAddress, subranges) ==
  IF i > Len(ranges) THEN ArrayV(subranges)
  ELSE IF ranges[i] < this.range \/ ranges[i] > ipv6_MAX_RANGE
    THEN Throw("InvalidIpv6CidrRangeError")
  ELSE IF NumGt(NumAdd(65536, currentBase, NumPow2(16, 8, 128 - ranges[i])), endAddress)
    THEN Ipv6SubnetByExceeds(Ipv6Address_new(BigIntV(currentBase)))
  ELSE Ipv6SubnetByPush(this, ranges, i, currentBase, endAddress, subranges,
         Ipv6Cidr_new(Ipv6Tuple(currentBase, ranges[i])))

Ipv6Cidr_subnetBy(this, ranges) ==
  Ipv6SubnetByLoop(this, ranges, 1, Ipv6Address_toBigInt(this.address),
    NumAdd(65536, Ipv6Address_toBigInt(this.address), Ipv6Cidr_addressCount(this)), <<>>)

\* this.#address.toBigInt() + 1n
Ipv6Cidr_getFirstUsableAddress(this) ==
  IF this.range = 128 THEN Undefined
  ELSE Ipv6Address_new(BigIntV(NumAdd(65536, Ipv6Address_toBigInt(this.address), NumOfInt(16, 8, 1))))

\* this.#address.toBigInt() + this.addressCount() - 2n
Ipv6Cidr_getLastUsableAddress(this) ==
  IF this.range = 128 THEN Undefined
  ELSE Ipv6Address_new(BigIntV(
         NumSub(65536, NumAdd(65536, Ipv6Address_toBigInt(this.address), Ipv6Cidr_addressCount(this)),
                NumOfInt(16, 8, 2))))

\* limit !== undefined && limit < count ? limit : count
Ipv6MaxIterations(this, limit) ==
  IF limit.k # "undefined" /\ NumLt(limit.v, Ipv6Cidr_addressCount(this)) THEN limit.v
  ELSE Ipv6Cidr_addressCount(this)

\* the generator addresses() returns: suspended before its first statement
Ipv6Cidr_addresses(this, limit) ==
  [k |-> "generator", cidr |-> this, limit |-> limit, i |-> 0, done |-> FALSE,
   value |-> None]

\* yield v, unless constructing v threw: the throw ends the generator
Ipv6Yield(g, v) ==
  IF v.k = "throw" THEN [g EXCEPT !.done = TRUE, !.value = v]
  ELSE [g EXCEPT !.i = @ + 1, !.value = v]

\* for (let i = 0n; i < maxIterations; i++) yield new Ipv6Address(baseBigInt + i)
Ipv6Generator_next(g) ==
  IF g.done THEN [g EXCEPT !.value = Undefined]
  ELSE IF NumLt(NumOfInt(16, 8, g.i), Ipv6MaxIterations(g.cidr, g.limit))
    THEN Ipv6Yield(g, Ipv6Address_new(BigIntV(
           NumAdd(65536, Ipv6Address_toBigInt(g.cidr.address), NumOfInt(16, 8, g.i)))))
  ELSE [g EXCEPT !.done = TRUE, !.value = Undefined]

\* (1n << 128n) - (1n << BigInt(128 - this.#range)), and 0n for range 0
Ipv6Cidr_netmask(this) ==
  IF this.range = 0 THEN Ipv6Address_new(BigIntV(NumOfInt(16, 8, 0)))
  ELSE Ipv6Address_new(BigIntV(
         NumSub(65536, NumPow2(16, 8, 128), NumPow2(16, 8, 128 - this.range))))

-----------------------------------------------------------------------------
(* Method calls on objects of either family *)

IsV4(x) == x.k \in {"Ipv4Address", "Ipv4Cidr"}
IsAddress(x) == x.k \in {"Ipv4Address", "Ipv6Address"}
IsCidr(x) == x.k \in {"Ipv4Cidr", "Ipv6Cidr"}

Address_toNumber(x) ==
  IF IsV4(x) THEN NumberV(Ipv4Address_toNumber(x)) ELSE BigIntV(Ipv6Address_toBigInt(x))
Address_compare(x, y, rel) ==
  IF IsV4(x) THEN Ipv4Address_compare(x, y, rel) ELSE Ipv6Address_compare(x, y, rel)
Address_hasNextAddress(x) ==
  Bool(IF IsV4(x) THEN Ipv4Address_hasNextAddress(x) ELSE Ipv6Address_hasNextAddress(x))
Address_nextAddress(x) ==
  IF IsV4(x) THEN Ipv4Address_nextAddress(x) ELSE Ipv6Address_nextAddress(x)
Address_hasPreviousAddress(x) ==
  Bool(IF IsV4(x) THEN Ipv4Address_hasPreviousAddress(x)
       ELSE Ipv6Address_hasPreviousAddress(x))
Address_previousAddress(x) ==
  IF IsV4(x) THEN Ipv4Address_previousAddress(x) ELSE Ipv6Address_previousAddress(x)
Address_toString(x) ==
  StringV(IF IsV4(x) THEN Ipv4Address_toString(x) ELSE Ipv6Address_toString(x))
Address_parse(family4, s) ==
  IF family4
    THEN (IF ipv4_isValidAddress(s) THEN ArrayV(ipv4_parseOctets(s)) ELSE ipv4_parseOctets(s))
    ELSE (IF ipv6_isValidAddress(s) THEN ArrayV(ipv6_parseHextets(s)) ELSE ipv6_parseHextets(s))

Cidr_includes(x, ip) ==
  Bool(IF IsV4(x) THEN Ipv4Cidr_includes(x, ip) ELSE Ipv6Cidr_includes(x, ip))
Cidr_overlaps(x, other) ==
  IF IsV4(x) THEN Ipv4Cidr_overlaps(x, other) ELSE Ipv6Cidr_overlaps(x, other)
Cidr_hasNextCIDR(x) ==
  Bool(IF IsV4(x) THEN Ipv4Cidr_hasNextCIDR(x) ELSE Ipv6Cidr_hasNextCIDR(x))
Cidr_nextCIDR(x) == IF IsV4(x) THEN Ipv4Cidr_nextCIDR(x) ELSE Ipv6Cidr_nextCIDR(x)
Cidr_hasPreviousCIDR(x) ==
  Bool(IF IsV4(x) THEN Ipv4Cidr_hasPreviousCIDR(x) ELSE Ipv6Cidr_hasPreviousCIDR(x))
Cidr_previousCIDR(x) == IF IsV4(x) THEN Ipv4Cidr_previousCIDR(x) ELSE Ipv6Cidr_previousCIDR(x)
Cidr_subnet(x, newRange) ==
  IF IsV4(x) THEN Ipv4Cidr_subnet(x, newRange) ELSE Ipv6Cidr_subnet(x, newRange)
Cidr_maxRange(x) == IF IsV4(x) THEN ipv4_MAX_RANGE ELSE ipv6_MAX_RANGE
Cidr_addresses(x, limit) ==
  IF IsV4(x) THEN Ipv4Cidr_addresses(x) ELSE Ipv6Cidr_addresses(x, limit)
Generator_next(g) ==
  IF IsV4(g.cidr) THEN Ipv4Generator_next(g) ELSE Ipv6Generator_next(g)
Cidr_subnetBy(x, ranges) ==
  IF IsV4(x) THEN Ipv4Cidr_subnetBy(x, ranges) ELSE Ipv6Cidr_subnetBy(x, ranges)
Cidr_getFirstUsableAddress(x) ==
  IF IsV4(x) THEN Ipv4Cidr_getFirstUsableAddress(x) ELSE Ipv6Cidr_getFirstUsableAddress(x)
Cidr_getLastUsableAddress(x) ==
  IF IsV4(x) THEN Ipv4Cidr_getLastUsableAddress(x) ELSE Ipv6Cidr_getLastUsableAddress(x)

-----------------------------------------------------------------------------
(* The inputs of the model *)

\* subnet(newRange) is called with newRange up to range + MaxSubnetBits
MaxSubnetBits == 2

\* octets of the IPv4 addresses the model builds
Ipv4Samples ==
  { <<0, 0, 0, 0>>, <<0, 0, 0, 1>>, <<0, 0, 1, 0>>, <<10, 0, 0, 1>>,
    <<127, 255, 255, 255>>, <<128, 0, 0, 0>>, <<128, 0, 0, 1>>,
    <<192, 168, 0, 0>>, <<192, 168, 1, 0>>, <<192, 168, 1, 1>>,
    <<255, 255, 255, 0>>, <<255, 255, 255, 254>>, <<255, 255, 255, 255>> }

\* hextets of the IPv6 addresses the model builds
Ipv6Samples ==
  { <<0, 0, 0, 0, 0, 0, 0, 0>>, <<0, 0, 0, 0, 0, 0, 0, 1>>,
    <<0, 0, 0, 0, 0, 0, 1, 0>>,
    <<8193, 3512, 0, 0, 0, 0, 0, 0>>, <<8193, 3512, 0, 0, 0, 0, 0, 1>>,
    <<32767, 65535, 65535, 65535, 65535, 65535, 65535, 65535>>,
    <<32768, 0, 0, 0, 0, 0, 0, 0>>,
    <<65535, 65535, 65535, 65535, 65535, 65535, 65535, 0>>,
    <<65535, 65535, 65535, 65535, 65535, 65535, 65535, 65534>>,
    <<65535, 65535, 65535, 65535, 65535, 65535, 65535, 65535>> }

\* address literals: group arrays, integers, and strings
Ipv4AddressLiterals ==
  {ArrayV(o) : o \in Ipv4Samples} \cup {NumberV(o) : o \in Ipv4Samples}
    \cup {StringV(<<"1", "9", "2", ".", "1", "6", "8", ".", "1", ".", "1">>),
          StringV(<<"1", "0", ".", "0", ".", "0", ".", "1">>)}
Ipv6AddressLiterals ==
  {ArrayV(h) : h \in Ipv6Samples} \cup {BigIntV(h) : h \in Ipv6Samples}
    \cup {StringV(<<"2", "0", "0", "1", ":", "d", "b", "8", ":", ":", "1">>),
          StringV(<<":", ":", "1">>)}

\* the objects the constructors make of the literals
Constructed(objects) == {x \in objects : x.k # "throw"}
Ipv4Addresses == Constructed({Ipv4Address_new(l) : l \in Ipv4AddressLiterals})
Ipv6Addresses == Constructed({Ipv6Address_new(l) : l \in Ipv6AddressLiterals})
AddressesLike(x) == IF IsV4(x) THEN Ipv4Addresses ELSE Ipv6Addresses

\* CIDR literals: tuples and objects over the bases and ranges below, and strings
Ipv4CidrBases ==
  { <<0, 0, 0, 0>>, <<10, 0, 0, 1>>, <<127, 255, 255, 0>>, <<128, 0, 0, 0>>,
    <<192, 168, 0, 0>>, <<192, 168, 1, 0>>, <<255, 255, 255, 0>>,
    <<255, 255, 255, 255>> }
Ipv4Ranges == {0, 1, 24, 30, 31, 32}
Ipv6CidrBases ==
  { <<0, 0, 0, 0, 0, 0, 0, 0>>, <<0, 0, 0, 0, 0, 0, 0, 1>>,
    <<8193, 3512, 0, 0, 0, 0, 0, 0>>, <<32768, 0, 0, 0, 0, 0, 0, 0>>,
    <<65535, 65535, 65535, 65535, 65535, 65535, 65535, 65533>>,
    <<65535, 65535, 65535, 65535, 65535, 65535, 65535, 65534>>,
    <<65535, 65535, 65535, 65535, 65535, 65535, 65535, 65535>> }
Ipv6Ranges == {0, 1, 32, 126, 127, 128}

Ipv4CidrLiterals ==
  {ArrayV(<<ArrayV(o), JsInt(r)>>) : o \in Ipv4CidrBases, r \in Ipv4Ranges}
    \cup {[k |-> "object", address |-> NumberV(<<10, 0, 0, 0>>), range |-> JsInt(8)],
          StringV(<<"1", "9", "2", ".", "1", "6", "8", ".", "0", ".", "0", "/", "2", "4">>)}
Ipv6CidrLiterals ==
  {ArrayV(<<ArrayV(h), JsInt(r)>>) : h \in Ipv6CidrBases, r \in Ipv6Ranges}
    \cup {[k |-> "object", address |-> BigIntV(<<8193, 3512, 0, 0, 0, 0, 0, 0>>),
           range |-> JsInt(64)],
          StringV(<<"2", "0", "0", "1", ":", "d", "b", "8", ":", ":", "/", "3", "2">>)}

Ipv4Cidrs == Constructed({Ipv4Cidr_new(l) : l \in Ipv4CidrLiterals})
Ipv6Cidrs == Constructed({Ipv6Cidr_new(l) : l \in Ipv6CidrLiterals})
CidrsLike(x) == IF IsV4(x) THEN Ipv4Cidrs ELSE Ipv6Cidrs

Rels == {"equals", "isGreaterThan", "isGreaterThanOrEqual", "isLessThan", "isLessThanOrEqual"}

Call(method, argument, result) ==
  /\ op' = method /\ arg' = argument /\ res' = result
  /\ UNCHANGED <<obj, heap>>

-----------------------------------------------------------------------------
(* Address methods *)

InitAddr ==
  /\ obj \in Ipv4Addresses \cup Ipv6Addresses
  /\ op = "new" /\ arg = None /\ res = None
  /\ heap = <<>>

ToNumber == IsAddress(obj) /\ Call("toNumber", None, Address_toNumber(obj))

Compare ==
  /\ IsAddress(obj)
  /\ \E rel \in Rels, other \in AddressesLike(obj) :
       Call(rel, other, Address_compare(obj, other, rel))

HasNextAddress ==
  IsAddress(obj) /\ Call("hasNextAddress", None, Address_hasNextAddress(obj))

NextAddress == IsAddress(obj) /\ Call("nextAddress", None, Address_nextAddress(obj))

HasPreviousAddress ==
  IsAddress(obj) /\ Call("hasPreviousAddress", None, Address_hasPreviousAddress(obj))

PreviousAddress ==
  IsAddress(obj) /\ Call("previousAddress", None, Address_previousAddress(obj))

NextAddr ==
  \/ ToNumber
  \/ Compare
  \/ HasNextAddress
  \/ NextAddress
  \/ HasPreviousAddress
  \/ PreviousAddress

SpecAddr == InitAddr /\ [][NextAddr]_vars

-----------------------------------------------------------------------------
(* Chained navigation: a.nextAddress().previousAddress() and the converse *)

\* x.previousAddress() where x is what a.nextAddress() returned or threw;
\* a method call on undefined is a TypeError
PreviousOf(x) ==
  IF x.k = "throw" THEN x
  ELSE IF x.k = "undefined" THEN Throw("TypeError")
  ELSE Address_previousAddress(x)

NextOf(x) ==
  IF x.k = "throw" THEN x
  ELSE IF x.k = "undefined" THEN Throw("TypeError")
  ELSE Address_nextAddress(x)

NextThenPrevious ==
  /\ IsAddress(obj)
  /\ Call("nextAddress().previousAddress()", None, PreviousOf(Address_nextAddress(obj)))

PreviousThenNext ==
  /\ IsAddress(obj)
  /\ Call("previousAddress().nextAddress()", None, NextOf(Address_previousAddress(obj)))

NextChain ==
  \/ HasNextAddress
  \/ NextAddress
  \/ HasPreviousAddress
  \/ PreviousAddress
  \/ NextThenPrevious
  \/ PreviousThenNext

SpecChain == InitAddr /\ [][NextChain]_vars

-----------------------------------------------------------------------------
(* CIDR methods *)

InitCidr ==
  /\ obj \in Ipv4Cidrs \cup Ipv6Cidrs
  /\ op = "new" /\ arg = None /\ res = None
  /\ heap = <<>>

Includes ==
  /\ IsCidr(obj)
  /\ \E ip \in AddressesLike(obj) : Call("includes", ip, Cidr_includes(obj, ip))

Overlaps ==
  /\ IsCidr(obj)
  /\ \E other \in CidrsLike(obj) : Call("overlaps", other, Cidr_overlaps(obj, other))

HasNextCIDR == IsCidr(obj) /\ Call("hasNextCIDR", None, Cidr_hasNextCIDR(obj))
NextCIDR == IsCidr(obj) /\ Call("nextCIDR", None, Cidr_nextCIDR(obj))
HasPreviousCIDR == IsCidr(obj) /\ Call("hasPreviousCIDR", None, Cidr_hasPreviousCIDR(obj))
PreviousCIDR == IsCidr(obj) /\ Call("previousCIDR", None, Cidr_previousCIDR(obj))

Subnet ==
  /\ IsCidr(obj)
  /\ \E newRange \in (obj.range - 1)..(obj.range + MaxSubnetBits) \cup {Cidr_maxRange(obj) + 1} :
       Call("subnet", JsInt(newRange), Cidr_subnet(obj, newRange))

NextCidr ==
  \/ Includes
  \/ Overlaps
  \/ HasNextCIDR
  \/ NextCIDR
  \/ HasPreviousCIDR
  \/ PreviousCIDR
  \/ Subnet

SpecCidr == InitCidr /\ [][NextCidr]_vars

-----------------------------------------------------------------------------
(* Masks and networks *)

\* blocks of every prefix over the sample addresses
Ipv4MaskCidrs ==
  Constructed({Ipv4Cidr_new(ArrayV(<<ArrayV(o), JsInt(r)>>)) :
                 o \in Ipv4Samples, r \in ipv4_MIN_RANGE..ipv4_MAX_RANGE})
Ipv6MaskCidrs ==
  Constructed({Ipv6Cidr_new(ArrayV(<<ArrayV(h), JsInt(r)>>)) :
                 h \in Ipv6Samples, r \in ipv6_MIN_RANGE..ipv6_MAX_RANGE})

InitMask ==
  /\ obj \in Ipv4MaskCidrs \cup Ipv6MaskCidrs
  /\ op = "new" /\ arg = None /\ res = None
  /\ heap = <<>>

Netmask ==
  /\ IsCidr(obj)
  /\ Call("netmask", None,
          IF IsV4(obj) THEN Ipv4Cidr_netmask(obj) ELSE Ipv6Cidr_netmask(obj))

\* hostmask, network and networkCIDR are methods of Ipv4Cidr only
Hostmask == obj.k = "Ipv4Cidr" /\ Call("hostmask", None, Ipv4Cidr_hostmask(obj))
Network == obj.k = "Ipv4Cidr" /\ Call("network", None, Ipv4Cidr_network(obj))
NetworkCIDR == obj.k = "Ipv4Cidr" /\ Call("networkCIDR", None, Ipv4Cidr_networkCIDR(obj))

\* x.networkCIDR().equals(y) where x is what c.networkCIDR() returned or threw
NetworkEquals(x, y) ==
  IF x.k = "throw" THEN x
  ELSE IF y.k = "throw" THEN y
  ELSE Ipv4Cidr_equals(x, y)
NetworkOfNetwork(x) == IF x.k = "throw" THEN x ELSE Ipv4Cidr_networkCIDR(x)

\* c.networkCIDR().networkCIDR().equals(c.networkCIDR())
NetworkCIDRTwice ==
  /\ obj.k = "Ipv4Cidr"
  /\ Call("networkCIDR().networkCIDR().equals", None,
          NetworkEquals(NetworkOfNetwork(Ipv4Cidr_networkCIDR(obj)), Ipv4Cidr_networkCIDR(obj)))

NextMask ==
  \/ Netmask
  \/ Hostmask
  \/ Network
  \/ NetworkCIDR
  \/ NetworkCIDRTwice

SpecMask == InitMask /\ [][NextMask]_vars

-----------------------------------------------------------------------------
(* Allocation inside a block: subnet, subnetBy and the usable addresses *)

\* subnetBy is called with lists of up to MaxRanges ranges
MaxRanges == 3

\* each requested range is the block's own range plus one of these
RangeOffsets == {-1, 0, 1, 2}

\* the lists of ranges requested of block c, and the list of the tests
\* (25, 26, 27, 27 of a /24)
RangeLists(c) ==
  {Arr([i \in 1..Len(o) |-> c.range + o[i]]) :
     o \in UNION {[1..n -> RangeOffsets] : n \in 0..MaxRanges} \cup {<<1, 2, 3, 3>>}}

\* the array literal of a list of ranges
RangesV(ranges) == ArrayV(Arr([i \in 1..Len(ranges) |-> JsInt(ranges[i])]))

SubnetBy ==
  /\ IsCidr(obj)
  /\ \E ranges \in RangeLists(obj) :
       Call("subnetBy", RangesV(ranges), Cidr_subnetBy(obj, ranges))

GetFirstUsableAddress ==
  IsCidr(obj) /\ Call("getFirstUsableAddress", None, Cidr_getFirstUsableAddress(obj))

GetLastUsableAddress ==
  IsCidr(obj) /\ Call("getLastUsableAddress", None, Cidr_getLastUsableAddress(obj))

NextAlloc ==
  \/ Subnet
  \/ SubnetBy
  \/ GetFirstUsableAddress
  \/ GetLastUsableAddress

SpecAlloc == InitCidr /\ [][NextAlloc]_vars

-----------------------------------------------------------------------------
(* The usable addresses of a block and its includes() *)

\* c.includes(ip) of what an accessor returned: includes() reads
\* ip.toNumber(), which is a TypeError on undefined
IncludesUsable(c, ip) == IF IsAddress(ip) THEN Cidr_includes(c, ip) ELSE Throw("TypeError")

\* first = c.getFirstUsableAddress(); last = c.getLastUsableAddress();
\* c.includes(first); c.includes(last)
UsableOf(c, first, last) ==
  IF first.k = "throw" THEN first
  ELSE IF last.k = "throw" THEN last
  ELSE [k |-> "usable", first |-> first, last |-> last,
        includesFirst |-> IncludesUsable(c, first),
        includesLast |-> IncludesUsable(c, last)]

IncludesUsableAddresses ==
  /\ IsCidr(obj)
  /\ Call("includes(usable)", None,
          UsableOf(obj, Cidr_getFirstUsableAddress(obj), Cidr_getLastUsableAddress(obj)))

NextUsable ==
  \/ GetFirstUsableAddress
  \/ GetLastUsableAddress
  \/ IncludesUsableAddresses

SpecUsable == InitCidr /\ [][NextUsable]_vars

-----------------------------------------------------------------------------
(* Iteration over a block *)

\* next() is called on a generator up to MaxYield times
MaxYield == 5

\* the limits addresses(limit) is called with: none, 0n .. 3n, and 2n ** 64n
Limits(c) ==
  IF IsV4(c) THEN {Undefined}
  ELSE {Undefined} \cup {BigIntV(NumOfInt(16, 8, m)) : m \in 0..3}
         \cup {BigIntV(NumPow2(16, 8, 64))}

\* res holds the generator; calls is the number of next() calls made on it
Addresses ==
  /\ IsCidr(obj)
  /\ \E limit \in Limits(obj) :
       Call("addresses", limit, [gen |-> Cidr_addresses(obj, limit), calls |-> 0])

GeneratorNext ==
  /\ op \in {"addresses", "next"}
  /\ res.calls < MaxYield
  /\ Call("next", arg, [gen |-> Generator_next(res.gen), calls |-> res.calls + 1])

NextIter ==
  \/ Addresses
  \/ GeneratorNext

SpecIter == InitCidr /\ [][NextIter]_vars

-----------------------------------------------------------------------------
(* Two iterations over one block, interleaved *)

\* res.gens holds the generators of two calls of addresses(), res.calls the
\* number of next() calls made on each
TwoAddresses ==
  /\ IsCidr(obj)
  /\ \E limit \in Limits(obj) :
       Call("addresses", limit,
            [gens |-> <<Cidr_addresses(obj, limit), Cidr_addresses(obj, limit)>>,
             calls |-> <<0, 0>>])

\* next() on the j-th of the two generators
StepOf(j) ==
  /\ op \in {"addresses", "next"}
  /\ res.calls[j] < MaxYield
  /\ Call("next", arg,
          [gens |-> [res.gens EXCEPT ![j] = Generator_next(res.gens[j])],
           calls |-> [res.calls EXCEPT ![j] = @ + 1]])

StepFirst == StepOf(1)
StepSecond == StepOf(2)

NextInterleave ==
  \/ TwoAddresses
  \/ StepFirst
  \/ StepSecond

SpecInterleave == InitCidr /\ [][NextInterleave]_vars

-----------------------------------------------------------------------------
(* Formatting and parsing *)

\* the groups of the addresses that are formatted: every array over these values
FormatOctetValues == {0, 1, 10, 255}
FormatHextetValues == {0, 1, 2571, 65535}

\* the literals the formatted addresses are constructed from: every group
\* array over the values above, integers, and strings in the forms the
\* validators accept
FormatIpv4Literals ==
  {ArrayV(o) : o \in [1..4 -> FormatOctetValues]}
    \cup {NumberV(o) : o \in Ipv4Samples}
    \cup {StringV(<<"1", "9", "2", ".", "1", "6", "8", ".", "1", ".", "1">>),
          StringV(<<"1", "e", "1", ".", "0", "x", "1", "F", ".", ".", " ", "0", "7">>)}
FormatIpv6Literals ==
  {ArrayV(h) : h \in [1..8 -> FormatHextetValues]}
    \cup {BigIntV(h) : h \in Ipv6Samples}
    \cup {StringV(<<"2", "0", "0", "1", ":", "D", "B", "8", ":", ":", "0", "0", "0", "1">>),
          StringV(<<":", ":", "F", "F", "F", "F", ":", "1", "0", ".", "0", ".", "0", ".", "1">>),
          StringV(<<"1", ":", "0", ":", "0", ":", "2", ":", ":">>),
          StringV(<<"0", ":", "0", ":", "0", ":", "0", ":", "0", ":", "0", ":", "0", ":", "0">>)}

\* new Ipv4Address(l) or new Ipv6Address(l), by the family of the literal set
Address_new(family4, l) == IF family4 THEN Ipv4Address_new(l) ELSE Ipv6Address_new(l)

InitFormat ==
  /\ \E family4 \in BOOLEAN :
       \E l \in IF family4 THEN FormatIpv4Literals ELSE FormatIpv6Literals :
         /\ arg = l
         /\ obj = Address_new(family4, l)
  /\ obj.k # "throw"
  /\ op = "new" /\ res = None
  /\ heap = <<>>

Format == IsAddress(obj) /\ Call("toString", None, Address_toString(obj))

\* ipv4.parseOctets / ipv6.parseHextets of the string toString returned
ParseFormatted ==
  /\ IsAddress(obj)
  /\ op = "toString"
  /\ Call("parse", res, Address_parse(IsV4(obj), res))

NextFormat ==
  \/ Format
  \/ ParseFormatted

SpecFormat == InitFormat /\ [][NextFormat]_vars

-----------------------------------------------------------------------------
(* Arrays shared between the caller and the object *)

\* a reference to the array heap[r]
Ref(r) == [k |-> "ref", r |-> r]

\* the literal with the arrays it refers to in place of the references
LiteralValue(h, ip) == IF ip.k = "ref" THEN ArrayV(h[ip.r]) ELSE ip

\* new Ipv4Address(ip) / new Ipv6Address(ip): a is the address by value.  The
\* parse functions return the array literal itself and a new array for a
\* string or an integer; #octets / #hextets is the reference to that array.
AddressAlloc(h, ip, a) ==
  IF a.k = "throw" THEN [heap |-> h, v |-> a]
  ELSE IF ip.k = "ref"
    THEN [heap |-> h, v |-> [k |-> a.k, groups |-> ip.r]]
  ELSE [heap |-> Append(h, IF IsV4(a) THEN a.octets ELSE a.hextets),
        v |-> [k |-> a.k, groups |-> Len(h) + 1]]

Address_alloc(family4, h, ip) ==
  AddressAlloc(h, ip, Address_new(family4, LiteralValue(h, ip)))

\* new Ipv4Cidr([ip, range]) / new Ipv6Cidr({address: ip, range}): the block
\* holds the address constructed from ip
CidrAlloc(family4, range, a) ==
  IF a.v.k = "throw" THEN a
  ELSE [heap |-> a.heap,
        v |-> [k |-> IF family4 THEN "Ipv4Cidr" ELSE "Ipv6Cidr", address |-> a.v,
               range |-> range]]

\* the address, or the block's base address
BaseOf(x) == IF IsCidr(x) THEN x.address ELSE x

\* the address as the methods read it: with the groups its array holds now
AddressValue(h, a) ==
  IF IsV4(a) THEN [k |-> "Ipv4Address", octets |-> h[a.groups]]
  ELSE [k |-> "Ipv6Address", hextets |-> h[a.groups]]

\* the references the caller holds: the array literal it built the object
\* from, and the array octets() / hextets() returned
LiteralRefs(l) ==
  IF l.k = "ref" THEN {l.r}
  ELSE IF l.k = "array" /\ Len(l.v) = 2 /\ l.v[1].k = "ref" THEN {l.v[1].r}
  ELSE IF l.k = "object" /\ l.address.k = "ref" THEN {l.address.r}
  ELSE {}
HeldRefs == LiteralRefs(arg) \cup (IF res.k = "ref" THEN {res.r} ELSE {})

\* the values the caller writes: within the range of a group, just above
\* the range of an octet, and just above the range of a hextet
WrittenValues == {0, 255, 256, 65536}

\* the caller builds an address from a literal, or a block from a tuple or
\* an object that holds the literal; an array literal is the caller's array 1
AliasLiterals(family4) ==
  IF family4 THEN Ipv4AddressLiterals ELSE Ipv6AddressLiterals
CallerHeap(l) == IF l.k = "array" THEN <<l.v>> ELSE <<>>
CallerLiteral(l) == IF l.k = "array" THEN Ref(1) ELSE l

Constructions == {"address", "tuple", "object"}
Constructs(family4, how, l, a) ==
  /\ a.v.k # "throw"
  /\ heap = a.heap
  /\ IF how = "address" THEN obj = a.v /\ arg = l
     ELSE /\ obj = CidrAlloc(family4, 24, a).v
          /\ arg = IF how = "tuple" THEN ArrayV(<<l, JsInt(24)>>)
                   ELSE [k |-> "object", address |-> l, range |-> JsInt(24)]

InitAlias ==
  /\ \E family4 \in BOOLEAN, how \in Constructions :
       \E l \in AliasLiterals(family4) :
         Constructs(family4, how, CallerLiteral(l),
                    Address_alloc(family4, CallerHeap(l), CallerLiteral(l)))
  /\ op = "new" /\ res = None

\* octets() / hextets(): return this.#octets / this.#hextets
Octets ==
  /\ IsAddress(obj)
  /\ Call("octets", arg, Ref(obj.groups))

\* toString() of the address, or of the block's base address
ToStringOfBase ==
  /\ IsAddress(BaseOf(obj))
  /\ Call("toString", arg, Address_toString(AddressValue(heap, BaseOf(obj))))

\* the caller assigns to the first or the last element of an array it holds
CallerWrite ==
  /\ \E r \in HeldRefs, v \in WrittenValues :
       \E i \in {1, Len(heap[r])} :
         heap' = [heap EXCEPT ![r][i] = v]
  /\ op' = "write"
  /\ UNCHANGED <<obj, arg, res>>

NextAlias ==
  \/ Octets
  \/ ToStringOfBase
  \/ CallerWrite

SpecAlias == InitAlias /\ [][NextAlias]_vars

-----------------------------------------------------------------------------
(* Literals: validation and construction *)

\* strings are built by joining up to this many groups with the separator
MaxIpv4Groups == 5
MaxIpv6Groups == 10

\* strings of the tests and of the documentation
S0 == <<"1", "9", "2", ".", "1", "6", "8", ".", "0", ".", "0">>
S1 == <<"1", "9", "2", ".", "1", "6", "8", ".", "1", ".", "1">>
S2 == <<"1", ".", ".", "2", ".", "3">>
S3 == <<" ", "1", ".", "2", ".", "3", ".", "4">>
S4 == <<"0", "0", "0", "1", ".", "0", ".", "0", ".", "0">>
S5 == <<"0", "x", "1", "0", ".", "0", ".", "0", ".", "1">>
S6 == <<"\t", "1", ".", "2", ".", "3", ".", "4", "\n">>
S7 == <<"0", "0", "0", "0", "0", "0", "0", "0", "1", ".", "0", ".", "0", ".", "0">>
S8 == <<"", "1", ".", "2", ".", "3", ".", "4", " ">>
S9 == Infinity \o <<".", "0", ".", "0", ".", "0">>
T1 == <<"2", "0", "0", "1", ":", "d", "b", "8", ":", ":", "1">>
T2 == <<":", ":", "f", "f", "f", "f", ":", "1", ".", "2", ".", "3", ".", "4">>
T3 == <<"2", "0", "0", "1", ":", "d", "b", "8", ":", ":", ":", "1">>
T4 == <<"2", "0", "0", "1", ":", "d", "b", "8", ":", ":", "1", ":", ":", "2">>
T5 == <<"1", ":", "2", ":", "3", ":", "4", ":", "5", ":", ":", "6", ":", "7", ":", "8", ":", "9">>
T6 == <<"2", "0", "0", "1", ":", "d", "b", "8">>
T7 == <<"0", ":", "0", ":", "0", ":", "0", ":", "0", ":", "0", ":", "0", ":">>
T8 == <<":", ":", "F", "F", "F", "F", ":", "1", ".", "2", ".", "3", ".", "9", "9", "9">>

\* all sequences of 1..n tokens
TokenLists(tokens, n) == UNION {[1..m -> tokens] : m \in 1..n}

\* tokens joined with "." : groups that are empty, decimal, above 255, in
\* exponent notation, or not numeric
Ipv4Tokens == {<<>>, <<"2", "5", "5">>, <<"2", "5", "6">>, <<"1", "e", "1">>, <<"a">>}
Ipv4Strings ==
  {JsJoin(t, <<".">>) : t \in TokenLists(Ipv4Tokens, MaxIpv4Groups)}
    \cup {S1, S2, S3, S4, S5, S6, S7, S8, S9}

\* tokens joined with ":" : empty groups and "1", with the first or the last
\* group possibly one that is longer, upper case, above four digits, or not
\* hexadecimal
Ipv6PlainTokens == {<<>>, <<"1">>}
Ipv6OddTokens ==
  {<<"a", "B", "3">>, <<"f", "f", "f", "f">>, <<"0", "0", "0", "0">>,
   <<"1", "2", "3", "4", "5">>, <<"g">>}
OneOdd(t) == {[t EXCEPT ![i] = odd] : i \in {1, Len(t)}, odd \in Ipv6OddTokens}
Ipv6TokenLists ==
  TokenLists(Ipv6PlainTokens, MaxIpv6Groups)
    \cup UNION {OneOdd(t) : t \in TokenLists(Ipv6PlainTokens, MaxIpv6Groups)}
Ipv6Strings ==
  {JsJoin(t, <<":">>) : t \in Ipv6TokenLists}
    \cup {T1, T2, T3, T4, T5, T6, T7, T8}

NullV == [k |-> "null"]

\* what is passed to isValidAddress and address
Ipv4Literals ==
  {StringV(s) : s \in Ipv4Strings}
    \cup {NumberV(n) : n \in Ipv4Samples \cup {<<-1, 255, 255, 255>>, <<256, 0, 0, 0>>}}
    \cup {ArrayV(o) : o \in Ipv4Samples \cup {<<1, 2, 3>>, <<1, 2, 3, 4, 5>>, <<1, 2, 3, 256>>,
                                              <<-1, 2, 3, 4>>}}
    \cup {Undefined, NullV, Bool(TRUE)}
Ipv6Literals ==
  {StringV(s) : s \in Ipv6Strings}
    \cup {BigIntV(n) : n \in Ipv6Samples \cup {<<-1, 65535, 65535, 65535, 65535, 65535, 65535, 65535>>,
                                               <<65536, 0, 0, 0, 0, 0, 0, 0>>}}
    \cup {ArrayV(h) : h \in Ipv6Samples \cup {<<1, 2, 3, 4, 5, 6, 7>>, <<1, 2, 3, 4, 5, 6, 7, 8, 9>>,
                                              <<1, 2, 3, 4, 5, 6, 7, 65536>>,
                                              <<-1, 2, 3, 4, 5, 6, 7, 8>>}}
    \cup {Undefined, NullV, Bool(TRUE)}

\* what follows the "/" of a CIDR string, and the ranges of tuples and objects
RangeStrings ==
  {<<"2", "4">>, <<"0">>, <<"3", "2">>, <<"3", "3">>, <<"1", "2", "8">>, <<"1", "2", "9">>,
   <<>>, <<"2", "4", "x">>, <<"-", "1">>, <<" ", "8">>, <<"x">>, <<"2", "4", ".", "5">>,
   <<"\t", "2", "4">>, <<"0", "0", "0", "0", "0", "0", "0", "0", "2", "4">>,
   <<"", "﻿", "8">>}
RangeNumbers ==
  {JsInt(-1), JsInt(0), JsInt(24), JsInt(32), JsInt(33), JsInt(128), JsInt(129),
   JsNaN, [k |-> "fraction"], StringV(<<"2", "4">>), Undefined}

\* CIDR literals over the address literals a: "a/r" and "a", tuples of one,
\* two and three elements, objects
CidrLiteralsOver(strings, literals) ==
  {StringV(s \o <<"/">> \o r) : s \in strings, r \in RangeStrings}
    \cup {StringV(s) : s \in strings}
    \cup {StringV(s \o <<"/", "8", "/", "8">>) : s \in strings}
    \cup {ArrayV(<<a, r>>) : a \in literals, r \in RangeNumbers}
    \cup {ArrayV(<<a>>) : a \in literals}
    \cup {ArrayV(<<a, JsInt(8), JsInt(8)>>) : a \in literals}
    \cup {[k |-> "object", address |-> a, range |-> r] : a \in literals, r \in RangeNumbers}
    \cup {Undefined, NullV, Bool(TRUE), NumberV(<<10, 0, 0, 0>>)}

Ipv4CidrAddressLiterals ==
  {ArrayV(<<10, 0, 0, 1>>), ArrayV(<<1, 2, 3>>), NumberV(<<192, 168, 0, 0>>),
   NumberV(<<256, 0, 0, 0>>), StringV(S1), StringV(S2), Undefined, NullV}
Ipv6CidrAddressLiterals ==
  {ArrayV(<<8193, 3512, 0, 0, 0, 0, 0, 0>>), ArrayV(<<1, 2, 3>>),
   BigIntV(<<0, 0, 0, 0, 0, 0, 0, 1>>), BigIntV(<<65536, 0, 0, 0, 0, 0, 0, 0>>),
   StringV(T1), StringV(T2), Undefined, NullV}
Ipv4AllCidrLiterals == CidrLiteralsOver({S0, S1, S2, S3}, Ipv4CidrAddressLiterals)
Ipv6AllCidrLiterals == CidrLiteralsOver({T1, T2, T6}, Ipv6CidrAddressLiterals)

\* the namespaces ipv4 and ipv6
Namespaces == {[k |-> "namespace", family |-> f] : f \in {4, 6}}

ipv_isValidAddress(ns, ip) ==
  Bool(IF ns.family = 4 THEN ipv4_isValidAddress(ip) ELSE ipv6_isValidAddress(ip))
ipv_address(ns, ip) == Address_new(ns.family = 4, ip)
ipv_isValidCIDR(ns, cidr) ==
  Bool(IF ns.family = 4 THEN ipv4_isValidCIDR(cidr) ELSE ipv6_isValidCIDR(cidr))
ipv_cidr(ns, cidr) == IF ns.family = 4 THEN Ipv4Cidr_new(cidr) ELSE Ipv6Cidr_new(cidr)

\* a program holds one literal and hands it to the namespace's functions
InitLiteral ==
  /\ obj \in Namespaces
  /\ \/ /\ op = "addressLiteral"
        /\ arg \in IF obj.family = 4 THEN Ipv4Literals ELSE Ipv6Literals
     \/ /\ op = "cidrLiteral"
        /\ arg \in IF obj.family = 4 THEN Ipv4AllCidrLiterals ELSE Ipv6AllCidrLiterals
  /\ res = None
  /\ heap = <<>>

IsValidAddress ==
  /\ obj.k = "namespace"
  /\ op \in {"addressLiteral", "isValidAddress", "address"}
  /\ Call("isValidAddress", arg, ipv_isValidAddress(obj, arg))

AddressOf ==
  /\ obj.k = "namespace"
  /\ op \in {"addressLiteral", "isValidAddress", "address"}
  /\ Call("address", arg, ipv_address(obj, arg))

IsValidCIDR ==
  /\ obj.k = "namespace"
  /\ op \in {"cidrLiteral", "isValidCIDR", "cidr"}
  /\ Call("isValidCIDR", arg, ipv_isValidCIDR(obj, arg))

CidrOf ==
  /\ obj.k = "namespace"
  /\ op \in {"cidrLiteral", "isValidCIDR", "cidr"}
  /\ Call("cidr", arg, ipv_cidr(obj, arg))

NextLiteral ==
  \/ IsValidAddress
  \/ AddressOf
  \/ IsValidCIDR
  \/ CidrOf

SpecLiteral == InitLiteral /\ [][NextLiteral]_vars

-----------------------------------------------------------------------------
(* Walks: every operation applied to what the one before returned *)

\* a walk applies up to MaxSteps operations
MaxSteps == 3

\* the values walks start from: what the constructors make of valid and
\* invalid literals
WalkBases == {<<10, 0, 0, 0>>, <<127, 255, 255, 254>>, <<255, 255, 255, 255>>}
WalkStarts ==
  Constructed({Ipv4Address_new(l) : l \in {ArrayV(<<10, 0, 0, 1>>), ArrayV(<<10, 0, 0, 256>>),
                                            StringV(S2), StringV(S5)}}
              \cup {Ipv6Address_new(l) : l \in {StringV(T2), StringV(T6)}}
              \cup {Ipv4Cidr_new(ArrayV(<<ArrayV(o), JsInt(r)>>)) :
                      o \in WalkBases, r \in {0, 24, 30, 33}}
              \cup {Ipv4Cidr_new(StringV(l)) : l \in {S0 \o <<"/", "2", "4">>,
                                                      S2 \o <<"/", "3", "3">>}}
              \cup {Ipv6Cidr_new(StringV(l)) : l \in {T2 \o <<"/", "1", "2", "6">>,
                                                      T2 \o <<"/", "1", "2", "9">>}})

\* the lists of ranges a walk divides a block by
WalkLists(c) == {<<c.range + 1, c.range + 2, c.range + 2>>, <<c.range - 1>>}

\* arg counts the operations applied so far
InitWalk ==
  /\ obj \in WalkStarts
  /\ op = "new" /\ arg = JsInt(0) /\ res = None
  /\ heap = <<>>

\* the walk goes on from result when it is an address or a block, and stays
\* where it is when the operation returned undefined or threw
Step(method, result) ==
  /\ arg.v < MaxSteps
  /\ op' = method /\ arg' = JsInt(arg.v + 1) /\ res' = result
  /\ obj' = IF IsAddress(result) \/ IsCidr(result) THEN result ELSE obj
  /\ UNCHANGED heap

\* from an array of blocks the walk goes on from any of them
StepInto(method, result) ==
  IF result.k = "array" /\ Len(result.v) > 0
    THEN \E i \in 1..Len(result.v) : Step(method, result.v[i])
    ELSE Step(method, result)

\* what the n-th next() on generator g leaves
RECURSIVE NthNext(_, _)
NthNext(g, n) == IF n = 0 THEN g ELSE Generator_next(NthNext(g, n - 1))

ThenNextAddress == IsAddress(obj) /\ Step("nextAddress", Address_nextAddress(obj))
ThenPreviousAddress == IsAddress(obj) /\ Step("previousAddress", Address_previousAddress(obj))
ThenNetmask ==
  /\ IsCidr(obj)
  /\ Step("netmask", IF IsV4(obj) THEN Ipv4Cidr_netmask(obj) ELSE Ipv6Cidr_netmask(obj))
ThenHostmask == obj.k = "Ipv4Cidr" /\ Step("hostmask", Ipv4Cidr_hostmask(obj))
ThenNetwork == obj.k = "Ipv4Cidr" /\ Step("network", Ipv4Cidr_network(obj))
ThenNetworkCIDR == obj.k = "Ipv4Cidr" /\ Step("networkCIDR", Ipv4Cidr_networkCIDR(obj))
ThenNextCIDR == IsCidr(obj) /\ Step("nextCIDR", Cidr_nextCIDR(obj))
ThenPreviousCIDR == IsCidr(obj) /\ Step("previousCIDR", Cidr_previousCIDR(obj))
ThenFirstUsable ==
  IsCidr(obj) /\ Step("getFirstUsableAddress", Cidr_getFirstUsableAddress(obj))
ThenLastUsable ==
  IsCidr(obj) /\ Step("getLastUsableAddress", Cidr_getLastUsableAddress(obj))
ThenSubnet ==
  /\ IsCidr(obj)
  /\ \E newRange \in {obj.range - 1, obj.range + 1} :
       StepInto("subnet", Cidr_subnet(obj, newRange))
ThenSubnetBy ==
  /\ IsCidr(obj)
  /\ \E ranges \in WalkLists(obj) : StepInto("subnetBy", Cidr_subnetBy(obj, ranges))
ThenAddresses ==
  /\ IsCidr(obj)
  /\ \E n \in 1..2 :
       Step("addresses", NthNext(Cidr_addresses(obj, Undefined), n).value)

NextWalk ==
  \/ ThenNextAddress
  \/ ThenPreviousAddress
  \/ ThenNetmask
  \/ ThenHostmask
  \/ ThenNetwork
  \/ ThenNetworkCIDR
  \/ ThenNextCIDR
  \/ ThenPreviousCIDR
  \/ ThenFirstUsable
  \/ ThenLastUsable
  \/ ThenSubnet
  \/ ThenSubnetBy
  \/ ThenAddresses

SpecWalk == InitWalk /\ [][NextWalk]_vars

-----------------------------------------------------------------------------
(* Walks by successor and by predecessor *)

\* a walk makes up to MaxWalk calls
MaxWalk == 4

\* walks start at both ends of each address space, around 2^31 for IPv4,
\* and in the middle
WalkFrom ==
  {[k |-> "Ipv4Address", octets |-> o] :
     o \in {<<0, 0, 0, 0>>, <<0, 0, 0, 1>>, <<0, 0, 0, 2>>, <<0, 0, 0, 3>>,
            <<127, 255, 255, 254>>, <<127, 255, 255, 255>>, <<128, 0, 0, 0>>, <<128, 0, 0, 1>>,
            <<192, 168, 1, 1>>,
            <<255, 255, 255, 252>>, <<255, 255, 255, 253>>, <<255, 255, 255, 254>>,
            <<255, 255, 255, 255>>}}
  \cup
  {[k |-> "Ipv6Address", hextets |-> h] :
     h \in {<<0, 0, 0, 0, 0, 0, 0, 0>>, <<0, 0, 0, 0, 0, 0, 0, 1>>, <<0, 0, 0, 0, 0, 0, 0, 2>>,
            <<0, 0, 0, 0, 0, 0, 0, 3>>, <<8193, 3512, 0, 0, 0, 0, 0, 65535>>,
            <<65535, 65535, 65535, 65535, 65535, 65535, 65535, 65532>>,
            <<65535, 65535, 65535, 65535, 65535, 65535, 65535, 65533>>,
            <<65535, 65535, 65535, 65535, 65535, 65535, 65535, 65534>>,
            <<65535, 65535, 65535, 65535, 65535, 65535, 65535, 65535>>}}

\* arg is the address the walk started from; res is the number of calls made
\* and what the last call returned
InitSuccessor ==
  /\ obj \in WalkFrom
  /\ op = "new" /\ arg = obj /\ res = [k |-> "walk", steps |-> 0, last |-> obj]
  /\ heap = <<>>

\* a = a.method() while the result is defined
WalkStep(method, result) ==
  /\ op \in {"new", method}
  /\ IsAddress(res.last)
  /\ res.steps < MaxWalk
  /\ op' = method
  /\ res' = [k |-> "walk", steps |-> res.steps + 1, last |-> result]
  /\ obj' = IF IsAddress(result) THEN result ELSE obj
  /\ UNCHANGED <<arg, heap>>

WalkNext == IsAddress(obj) /\ WalkStep("nextAddress", Address_nextAddress(obj))
WalkPrevious ==
  IsAddress(obj) /\ WalkStep("previousAddress", Address_previousAddress(obj))

NextSuccessor ==
  \/ WalkNext
  \/ WalkPrevious

SpecSuccessor == InitSuccessor /\ [][NextSuccessor]_vars

-----------------------------------------------------------------------------
(* The canonical unsigned integers of the specification *)

\* the canonical integer of an address: its groups, most significant first
Groups(x) == IF IsV4(x) THEN x.octets ELSE x.hextets
Radix(x) == IF IsV4(x) THEN 256 ELSE 65536
MaxSize(x) == IF IsV4(x) THEN ipv4_MAX_SIZE ELSE ipv6_MAX_SIZE
MinSize(x) == IF IsV4(x) THEN ipv4_MIN_SIZE ELSE ipv6_MIN_SIZE
One(x) == IF IsV4(x) THEN <<0, 0, 0, 1>> ELSE <<0, 0, 0, 0, 0, 0, 0, 1>>

\* the address of x's family whose canonical integer is n
WithGroups(x, n) ==
  IF IsV4(x) THEN [k |-> "Ipv4Address", octets |-> n]
  ELSE [k |-> "Ipv6Address", hextets |-> n]

\* a block's raw base, its size 2^(width - range), and the end of its range
CidrBase(c) == Groups(c.address)
CidrSize(c, range) ==
  IF IsV4(c) THEN NumPow2(8, 4, 32 - range) ELSE NumPow2(16, 8, 128 - range)
CidrCount(c) == CidrSize(c, c.range)
CidrEnd(c) == NumAdd(Radix(c), CidrBase(c), CidrCount(c))

\* the block of c's family with base n and the given range
CidrAt(c, n, range) == [k |-> c.k, address |-> WithGroups(c.address, n), range |-> range]

-----------------------------------------------------------------------------
(* Properties of the address methods, under SpecAddr *)

\* C1: toNumber() of an IPv4 address with octets o0..o3 returns
\* o0*2^24 + o1*2^16 + o2*2^8 + o3, a value in [0, 2^32 - 1].
C1_ToNumberUnsigned ==
  (op = "toNumber" /\ IsV4(obj)) =>
    /\ res = NumberV(Groups(obj))
    /\ NumGe(res.v, ipv4_MIN_SIZE) /\ NumLe(res.v, ipv4_MAX_SIZE)

\* C2: equals, isLessThan, isLessThanOrEqual, isGreaterThan and
\* isGreaterThanOrEqual on two addresses of one family return ==, <, <=, >, >=
\* on the two canonical unsigned integers.
C2_CompareUnsigned ==
  (op \in Rels /\ IsAddress(obj) /\ IsAddress(arg)) =>
    res = Bool(NumRel(op, Groups(obj), Groups(arg)))

\* C3: hasNextAddress() iff the canonical integer is below MAX_SIZE;
\* nextAddress() never throws, is undefined exactly at MAX_SIZE and otherwise
\* the address one above; hasPreviousAddress() and previousAddress() likewise
\* with MIN_SIZE and one below.
C3_Navigation ==
  IsAddress(obj) =>
    /\ op = "hasNextAddress" => res = Bool(NumLt(Groups(obj), MaxSize(obj)))
    /\ op = "nextAddress" =>
         res = IF Groups(obj) = MaxSize(obj) THEN Undefined
               ELSE WithGroups(obj, NumAdd(Radix(obj), Groups(obj), One(obj)))
    /\ op = "hasPreviousAddress" => res = Bool(NumGt(Groups(obj), MinSize(obj)))
    /\ op = "previousAddress" =>
         res = IF Groups(obj) = MinSize(obj) THEN Undefined
               ELSE WithGroups(obj, NumSub(Radix(obj), Groups(obj), One(obj)))

-----------------------------------------------------------------------------
(* Properties of the CIDR methods, under SpecCidr *)

\* C4: c.includes(a) iff base <= a < base + addressCount as canonical unsigned
\* integers, with the raw base, for every range and every base.
C4_IncludesRange ==
  (op = "includes" /\ IsCidr(obj)) =>
    res = Bool(NumLe(CidrBase(obj), Groups(arg)) /\ NumLt(Groups(arg), CidrEnd(obj)))

\* C5: c.subnet(p) with range <= p <= MAX_RANGE returns, without throwing,
\* exactly 2^(p - range) blocks of range p, the i-th based at
\* base + i * 2^(width - p): increasing, contiguous, covering c's range.
C5_SubnetPartition ==
  (op = "subnet" /\ IsCidr(obj) /\ arg.v >= obj.range /\ arg.v <= Cidr_maxRange(obj)) =>
    /\ res.k = "array"
    /\ Len(res.v) = 2 ^ (arg.v - obj.range)
    /\ \A i \in 1..Len(res.v) :
         res.v[i] = CidrAt(obj, NumAdd(Radix(obj), CidrBase(obj),
                                       NumMulSmall(Radix(obj), i - 1, CidrSize(obj, arg.v))),
                           arg.v)

\* the whole next block fits: base + count <= MAX_SIZE - (count - 1)
NextBlockFits(c) ==
  NumLe(CidrEnd(c),
        NumSub(Radix(c), MaxSize(c), NumSub(Radix(c), CidrCount(c), One(c))))

\* C6: hasNextCIDR() is true and nextCIDR() is the block at base + count with
\* the same range iff the whole next block fits inside the address space;
\* otherwise hasNextCIDR() is false and nextCIDR() is undefined.
C6_NextCIDR ==
  IsCidr(obj) =>
    /\ op = "hasNextCIDR" => res = Bool(NextBlockFits(obj))
    /\ op = "nextCIDR" =>
         res = IF NextBlockFits(obj) THEN CidrAt(obj, CidrEnd(obj), obj.range)
               ELSE Undefined

\* the previous block starts at or above MIN_SIZE: base - count >= 0
PreviousBlockFits(c) ==
  NumGe(NumSub(Radix(c), CidrBase(c), CidrCount(c)), MinSize(c))

\* C7: hasPreviousCIDR() is true and previousCIDR() is the block at
\* base - count with the same range iff base - count >= MIN_SIZE; otherwise
\* hasPreviousCIDR() is false and previousCIDR() is undefined.
C7_PreviousCIDR ==
  IsCidr(obj) =>
    /\ op = "hasPreviousCIDR" => res = Bool(PreviousBlockFits(obj))
    /\ op = "previousCIDR" =>
         res = IF PreviousBlockFits(obj)
                 THEN CidrAt(obj, NumSub(Radix(obj), CidrBase(obj), CidrCount(obj)),
                             obj.range)
                 ELSE Undefined

\* C8: x.overlaps(y) iff the half-open ranges [base, base + count) of the two
\* blocks have an integer in common.
C8_OverlapsRange ==
  (op = "overlaps" /\ IsCidr(obj) /\ IsCidr(arg)) =>
    res = Bool(NumLt(CidrBase(obj), CidrEnd(arg)) /\ NumLt(CidrBase(arg), CidrEnd(obj)))

-----------------------------------------------------------------------------
(* Properties of formatting and parsing, under SpecFormat *)

\* C9: for every valid address literal L, the address constructed from L holds
\* the groups L parses to, and parsing the string toString() returns yields
\* those same groups.
C9_RoundTrip ==
  /\ op = "new" => ArrayV(Groups(obj)) = Address_parse(IsV4(obj), arg)
  /\ op = "parse" => res = ArrayV(Groups(obj))

\* an IPv6 address from a hextet array with letters, an interior zero digit
\* and a zero run has been formatted as "a0b::ffff" and parsed back
C9_Witness ==
  /\ op = "parse"
  /\ obj = [k |-> "Ipv6Address", hextets |-> <<2571, 0, 0, 0, 0, 0, 0, 65535>>]
  /\ arg = StringV(<<"a", "0", "b", ":", ":", "f", "f", "f", "f">>)
  /\ res = ArrayV(<<2571, 0, 0, 0, 0, 0, 0, 65535>>)

\* a maximal run of n >= 2 zero hextets starting at position s (from 1)
IsZeroRun(h, s, n) ==
  /\ n >= 2 /\ s + n - 1 <= 8
  /\ \A i \in s..(s + n - 1) : h[i] = 0
  /\ s = 1 \/ h[s - 1] # 0
  /\ s + n - 1 = 8 \/ h[s + n] # 0
ZeroRuns(h) == {r \in (1..8) \X (2..8) : IsZeroRun(h, r[1], r[2])}

\* the longest of the runs, the leftmost of the longest; <<>> when there is none
CompressedRun(h) ==
  IF ZeroRuns(h) = {} THEN <<>>
  ELSE CHOOSE r \in ZeroRuns(h) :
         \A q \in ZeroRuns(h) : q[2] < r[2] \/ (q[2] = r[2] /\ q[1] >= r[1])

\* t is v in lowercase hexadecimal without leading zeros
IsHexOf(t, v) ==
  /\ AllDigitsOf(t, HexDigits)
  /\ Len(t) = 1 \/ t[1] # "0"
  /\ DigitsValue(t, HexDigits) = v
RendersGroups(ts, hs) == Len(ts) = Len(hs) /\ \A i \in 1..Len(hs) : IsHexOf(ts[i], hs[i])

\* C10: toString() of an IPv6 address replaces with "::" exactly the longest
\* run of two or more zero hextets, the leftmost on ties, and nothing when
\* there is no such run; the hextets outside it are lowercase hexadecimal
\* without leading zeros joined with ":"; the all-zero address is "::".
C10_Compression ==
  (op = "toString" /\ obj.k = "Ipv6Address") =>
    LET h == obj.hextets
        r == CompressedRun(h)
        parts == JsSplit(res.v, <<":", ":">>)
    IN  /\ IF r = <<>>
             THEN Len(parts) = 1 /\ RendersGroups(JsSplit(res.v, <<":">>), h)
             ELSE /\ Len(parts) = 2
                  /\ RendersGroups(ColonParts(parts[1]), SubSeq(h, 1, r[1] - 1))
                  /\ RendersGroups(ColonParts(parts[2]), SubSeq(h, r[1] + r[2], 8))
        /\ h = ipv6_MIN_SIZE => res.v = <<":", ":">>

\* two zero runs of length 2: the left one is compressed, "1::1:0:0:1:ffff"
C10_Witness ==
  /\ op = "toString"
  /\ obj = [k |-> "Ipv6Address", hextets |-> <<1, 0, 0, 1, 0, 0, 1, 65535>>]
  /\ res = StringV(<<"1", ":", ":", "1", ":", "0", ":", "0", ":", "1", ":",
                     "f", "f", "f", "f">>)

-----------------------------------------------------------------------------
(* Properties of validation and construction, under SpecLiteral *)

AddressClass(ns) == IF ns.family = 4 THEN "Ipv4Address" ELSE "Ipv6Address"
AddressError(ns) ==
  IF ns.family = 4 THEN "InvalidIpv4AddressError" ELSE "InvalidIpv6AddressError"
CidrClass(ns) == IF ns.family = 4 THEN "Ipv4Cidr" ELSE "Ipv6Cidr"
CidrError(ns) == IF ns.family = 4 THEN "InvalidIpv4CidrError" ELSE "InvalidIpv6CidrError"

\* C11: isValidAddress(L) is true iff address(L) completes, and address(L)
\* throws the family's address error otherwise; isValidCIDR(L) is true iff
\* cidr(L) completes, and cidr(L) throws the family's CIDR error otherwise.
C11_ValidIffConstructs ==
  obj.k = "namespace" =>
    /\ op = "address" =>
         IF ipv_isValidAddress(obj, arg).v THEN res.k = AddressClass(obj)
         ELSE res = Throw(AddressError(obj))
    /\ op = "cidr" =>
         IF ipv_isValidCIDR(obj, arg).v THEN res.k = CidrClass(obj)
         ELSE res = Throw(CidrError(obj))

\* cidr("192.168.1.1/33") has thrown InvalidIpv4CidrError
C11_WitnessThrows ==
  /\ op = "cidr"
  /\ arg = StringV(S1 \o <<"/", "3", "3">>)
  /\ res = Throw("InvalidIpv4CidrError")

\* C12: ipv4.isValidAddress(s) is true only if s splits on "." into exactly
\* four groups, each non-empty, at most three characters, all decimal digits,
\* with a value in 0..255.
C12_Ipv4StringGroups ==
  (op = "isValidAddress" /\ obj.family = 4 /\ arg.k = "string" /\ res.v) =>
    LET groups == JsSplit(arg.v, <<".">>) IN
    /\ Len(groups) = 4
    /\ \A i \in 1..4 :
         /\ Len(groups[i]) >= 1 /\ Len(groups[i]) <= 3
         /\ AllDigitsOf(groups[i], Digits)
         /\ DigitsValue(groups[i], Digits) <= 255

\* a group of one to four hexadecimal digits
IsHexGroup(g) == Len(g) >= 1 /\ Len(g) <= 4 /\ AllDigitsOf(FoldCase(g), HexDigits)

\* at most one "::"; with it, the groups on its two sides are at most eight
\* and all hexadecimal; without it, there are exactly eight such groups
Ipv6WellFormed(s) ==
  LET sides == JsSplit(s, <<":", ":">>) IN
  IF Len(sides) = 1
    THEN LET groups == JsSplit(s, <<":">>) IN
         Len(groups) = 8 /\ \A i \in 1..8 : IsHexGroup(groups[i])
  ELSE IF Len(sides) = 2
    THEN LET groups == ColonParts(sides[1]) \o ColonParts(sides[2]) IN
         Len(groups) <= 8 /\ \A i \in 1..Len(groups) : IsHexGroup(groups[i])
  ELSE FALSE

\* C13: for a string that is not "::ffff:" followed by a dotted quad,
\* ipv6.isValidAddress is true iff the string has at most one "::" and, with
\* that marker expanded to 8 - left - right >= 0 zero groups, is exactly eight
\* groups of one to four hexadecimal digits.
C13_Ipv6StringGroups ==
  (op = "isValidAddress" /\ obj.family = 6 /\ arg.k = "string"
     /\ Ipv4MappedMatch(arg.v) = <<>>) =>
    res = Bool(Ipv6WellFormed(arg.v))

\* isValidAddress("1:2:3:4:5::6:7:8:9") has returned false
C13_WitnessTooMany ==
  /\ op = "isValidAddress"
  /\ arg = StringV(T5)
  /\ res = Bool(FALSE)

-----------------------------------------------------------------------------
(* Properties of allocation inside a block, under SpecAlloc *)

CidrRangeError(c) ==
  IF IsV4(c) THEN "InvalidIpv4CidrRangeError" ELSE "InvalidIpv6CidrRangeError"
Width(c) == Cidr_maxRange(c)

\* the requested ranges of a subnetBy call
Requested == Arr([i \in 1..Len(arg.v) |-> arg.v[i].v])

\* where the i-th requested block starts: the base plus the sizes of the
\* blocks before it
RECURSIVE AllocBase(_, _, _)
AllocBase(c, ranges, i) ==
  IF i = 1 THEN CidrBase(c)
  ELSE NumAdd(Radix(c), AllocBase(c, ranges, i - 1), CidrSize(c, ranges[i - 1]))

InRange(c, range) == range >= c.range /\ range <= Width(c)

\* C14: when subnetBy([p1..pn]) succeeds the result has n blocks in request
\* order, block i has prefix pi, block 1 starts at the base and block i+1 at
\* block i's base + 2^(width - pi); 192.168.0.0/24 split by [25, 26, 27, 27]
\* is [192.168.0.0/25, 192.168.0.128/26, 192.168.0.192/27, 192.168.0.224/27].
C14_SubnetByLayout ==
  op = "subnetBy" =>
    /\ res.k = "array" =>
         /\ Len(res.v) = Len(arg.v)
         /\ \A i \in 1..Len(res.v) :
              res.v[i] = CidrAt(obj, AllocBase(obj, Requested, i), Requested[i])
    /\ (obj = CidrAt(obj, <<192, 168, 0, 0>>, 24) /\ IsV4(obj)
          /\ Requested = <<25, 26, 27, 27>>) =>
         res = ArrayV(<<CidrAt(obj, <<192, 168, 0, 0>>, 25),
                        CidrAt(obj, <<192, 168, 0, 128>>, 26),
                        CidrAt(obj, <<192, 168, 0, 192>>, 27),
                        CidrAt(obj, <<192, 168, 0, 224>>, 27)>>)

\* some first k requested blocks are larger than the parent
ExceedsParent(c, ranges) ==
  \E k \in 1..Len(ranges) : NumGt(AllocBase(c, ranges, k + 1), CidrEnd(c))

\* C15: with every requested prefix within [range, MAX_RANGE], subnetBy throws
\* the family's CidrRangeError iff the sizes of some first k requested blocks
\* add up to more than addressCount(), and returns an array otherwise.
C15_SubnetByBounds ==
  (op = "subnetBy" /\ \A i \in 1..Len(Requested) : InRange(obj, Requested[i])) =>
    IF ExceedsParent(obj, Requested) THEN res = Throw(CidrRangeError(obj))
    ELSE res.k = "array"

\* C16: subnet(n) throws the family's CidrRangeError when n < range or
\* n > MAX_RANGE, and subnetBy(list) throws it when any prefix of the list is,
\* whatever its position.
C16_RangeErrors ==
  /\ (op = "subnet" /\ ~InRange(obj, arg.v)) => res = Throw(CidrRangeError(obj))
  /\ (op = "subnetBy" /\ \E i \in 1..Len(Requested) : ~InRange(obj, Requested[i])) =>
       res = Throw(CidrRangeError(obj))

\* C17: the usable addresses are undefined iff the prefix is the full width,
\* and otherwise the addresses with integers base + 1 and base + count - 2.
C17_UsableAddresses ==
  /\ op = "getFirstUsableAddress" =>
       IF obj.range = Width(obj) THEN res = Undefined
       ELSE res = WithGroups(obj.address, NumAdd(Radix(obj), CidrBase(obj), One(obj.address)))
  /\ op = "getLastUsableAddress" =>
       IF obj.range = Width(obj) THEN res = Undefined
       ELSE res = WithGroups(obj.address,
                    NumSub(Radix(obj), CidrEnd(obj),
                           NumAdd(Radix(obj), One(obj.address), One(obj.address))))

-----------------------------------------------------------------------------
(* Properties of iteration, under SpecIter *)

\* how many addresses the iteration is to yield: addressCount(), or the limit
\* if that is smaller
ExpectedYields(c, limit) ==
  IF limit.k # "undefined" /\ NumLt(limit.v, CidrCount(c)) THEN limit.v ELSE CidrCount(c)

SmallNum(c, m) == IF IsV4(c) THEN NumOfInt(8, 4, m) ELSE NumOfInt(16, 8, m)

\* C18: the i-th address (0-based) that addresses() yields has the integer
\* base + i; the iteration ends after exactly addressCount() addresses, or
\* after min(limit, addressCount()) for IPv6 addresses(limit).
C18_Iteration ==
  op = "next" =>
    /\ ~res.gen.done =>
         /\ res.gen.value = WithGroups(obj.address,
              NumAdd(Radix(obj), CidrBase(obj), SmallNum(obj, res.gen.i - 1)))
         /\ NumLe(SmallNum(obj, res.gen.i), ExpectedYields(obj, arg))
    /\ res.gen.done =>
         /\ res.gen.value = Undefined
         /\ SmallNum(obj, res.gen.i) = ExpectedYields(obj, arg)

-----------------------------------------------------------------------------
(* Properties of sharing, under SpecAlias *)

ZeroLiteral(a) ==
  IF IsV4(a) THEN ArrayV(<<0, 0, 0, 0>>) ELSE ArrayV(<<0, 0, 0, 0, 0, 0, 0, 0>>)

\* what the caller can observe of address a
ObservedOf(a) ==
  <<Address_toString(a), Address_toNumber(a), Groups(a),
    Address_compare(a, ZeroLiteral(a), "isGreaterThan")>>
Observed(x, h) == ObservedOf(AddressValue(h, BaseOf(x)))

\* C19: a write by the caller to the array literal an address (or a block's
\* base address) was built from, or to the array octets() / hextets()
\* returned, leaves toString(), toNumber() / toBigInt(), octets() / hextets()
\* and the comparisons of that address unchanged.
C19_Immutable ==
  [][op' = "write" => Observed(obj', heap') = Observed(obj, heap)]_vars

-----------------------------------------------------------------------------
(* Properties of chained navigation, under SpecChain *)

\* C20: for an address a with hasNextAddress() true,
\* a.nextAddress().previousAddress() is a; for an address a with
\* hasPreviousAddress() true, a.previousAddress().nextAddress() is a.
C20_Inverse ==
  /\ (op = "nextAddress().previousAddress()" /\ Address_hasNextAddress(obj).v) => res = obj
  /\ (op = "previousAddress().nextAddress()" /\ Address_hasPreviousAddress(obj).v) => res = obj

-----------------------------------------------------------------------------
(* Algebraic properties of the comparators and of overlaps *)

\* what a.rel(b) returns, a being obj and b the argument of the call made:
\* the result of that call for the comparator called, the comparator's result
\* for the others
Compared(rel) == IF rel = op THEN res.v ELSE Address_compare(obj, arg, rel).v

\* C21: of a.isLessThan(b), a.equals(b), a.isGreaterThan(b) exactly one is
\* true; isLessThanOrEqual is (isLessThan or equals); isGreaterThanOrEqual is
\* (isGreaterThan or equals); a.isLessThan(b) is b.isGreaterThan(a).
C21_OrderingTotal ==
  (op \in Rels /\ IsAddress(obj) /\ IsAddress(arg)) =>
    /\ Cardinality({rel \in {"isLessThan", "equals", "isGreaterThan"} : Compared(rel)}) = 1
    /\ Compared("isLessThanOrEqual") = (Compared("isLessThan") \/ Compared("equals"))
    /\ Compared("isGreaterThanOrEqual") = (Compared("isGreaterThan") \/ Compared("equals"))
    /\ Compared("isLessThan") = Address_compare(arg, obj, "isGreaterThan").v

\* 10.0.0.1.isLessThanOrEqual(10.0.0.1) has returned true
C21_WitnessEqual ==
  /\ op = "isLessThanOrEqual"
  /\ obj = [k |-> "Ipv4Address", octets |-> <<10, 0, 0, 1>>]
  /\ arg = obj
  /\ res = Bool(TRUE)

\* C22: x.overlaps(y) is y.overlaps(x), and x.overlaps(x) is true.
C22_OverlapSymmetric ==
  (op = "overlaps" /\ IsCidr(obj) /\ IsCidr(arg)) =>
    /\ res = Cidr_overlaps(arg, obj)
    /\ arg = obj => res = Bool(TRUE)

\* 192.168.0.0/24 overlaps(10.0.0.1/30) has returned false
C22_WitnessDisjoint ==
  /\ op = "overlaps"
  /\ obj = CidrAt(obj, <<192, 168, 0, 0>>, 24) /\ IsV4(obj)
  /\ arg = CidrAt(obj, <<10, 0, 0, 1>>, 30)
  /\ res = Bool(FALSE)

-----------------------------------------------------------------------------
(* Properties of masks and networks, under SpecMask *)

\* 2^width
SpaceSize(c) == IF IsV4(c) THEN NumPow2(8, 4, 32) ELSE NumPow2(16, 8, 128)

\* C23: netmask() is the address with integer 2^width - 2^(width - p) in both
\* families; hostmask() of an IPv4 block is the address with integer
\* 2^(32 - p) - 1.
C23_Masks ==
  /\ op = "netmask" =>
       res = WithGroups(obj.address, NumSub(Radix(obj), SpaceSize(obj), CidrCount(obj)))
  /\ op = "hostmask" =>
       res = WithGroups(obj.address, NumSub(Radix(obj), CidrCount(obj), One(obj.address)))

\* netmask() of x.x.x.x/24 has returned 255.255.255.0
C23_WitnessNetmask24 ==
  /\ op = "netmask"
  /\ IsV4(obj) /\ obj.range = 24
  /\ res = [k |-> "Ipv4Address", octets |-> <<255, 255, 255, 0>>]

\* n is a multiple of the block's size: its low width - p bits are zero
RECURSIVE LowBitsZero(_, _, _)
LowBitsZero(n, i, bits) ==
  IF bits <= 0 THEN TRUE
  ELSE IF bits >= 8 THEN n[i] = 0 /\ LowBitsZero(n, i - 1, bits - 8)
  ELSE n[i] % (2 ^ bits) = 0

\* C24: network() is the largest multiple of addressCount() that is <= base,
\* an address with an integer in [0, 2^32 - 1]; networkCIDR() is the block
\* (network(), p); networkCIDR() of networkCIDR() equals networkCIDR().
C24_Network ==
  /\ op = "network" =>
       /\ res.k = "Ipv4Address"
       /\ LowBitsZero(res.octets, 4, 32 - obj.range)
       /\ NumLe(res.octets, CidrBase(obj))
       /\ NumLt(CidrBase(obj), NumAdd(256, res.octets, CidrCount(obj)))
  /\ op = "networkCIDR" =>
       res = CidrAt(obj, Ipv4Cidr_network(obj).octets, obj.range)
  /\ op = "networkCIDR().networkCIDR().equals" => res = Bool(TRUE)

\* network() of 192.168.1.1/24 has returned 192.168.1.0
C24_WitnessNetwork ==
  /\ op = "network"
  /\ obj = CidrAt(obj, <<192, 168, 1, 1>>, 24)
  /\ res = [k |-> "Ipv4Address", octets |-> <<192, 168, 1, 0>>]

-----------------------------------------------------------------------------
(* Properties of string CIDR literals, under SpecLiteral *)

\* s without its leading white space and without one leading sign
Unsigned(s) ==
  LET spaces == LeadingIn(s, WhiteSpace)
      signed == spaces < Len(s) /\ s[spaces + 1] \in {"+", "-"}
  IN  [negative |-> spaces < Len(s) /\ s[spaces + 1] = "-",
       body |-> SubSeq(s, spaces + (IF signed THEN 2 ELSE 1), Len(s))]

\* how many decimal digits s starts with
LeadingDigits(s) ==
  CHOOSE n \in 0..Len(s) :
    /\ \A i \in 1..n : \E d \in 1..10 : s[i] = Digits[d]
    /\ n < Len(s) => \A d \in 1..10 : s[n + 1] # Digits[d]

\* the leading integer of u.body with u.negative as its sign, None if there is none
LeadingOf(u) ==
  IF LeadingDigits(u.body) = 0 THEN None
  ELSE JsInt((IF u.negative THEN -1 ELSE 1)
               * DigitsValue(SubSeq(u.body, 1, LeadingDigits(u.body)), Digits))
LeadingInteger(s) == LeadingOf(Unsigned(s))

\* addr valid and the leading integer n of pfx within [0, MAX_RANGE]
ValidWith(ns, addr, n) ==
  /\ ipv_isValidAddress(ns, StringV(addr)).v
  /\ n # None
  /\ n.v >= 0 /\ n.v <= (IF ns.family = 4 THEN ipv4_MAX_RANGE ELSE ipv6_MAX_RANGE)

\* what the claim says of the call made, parts being the literal split on "/"
LeadingIntegerRule(parts, valid, n) ==
  IF Len(parts) # 2 THEN (IF op = "cidr" THEN res.k = "throw" ELSE res = Bool(FALSE))
  ELSE IF op = "isValidCIDR" THEN res = Bool(valid)
  ELSE IF valid THEN res.k = CidrClass(obj) /\ res.range = n.v
  ELSE res.k = "throw"

RuleOfParts(parts) ==
  IF Len(parts) # 2 THEN LeadingIntegerRule(parts, FALSE, None)
  ELSE LeadingIntegerRule(parts, ValidWith(obj, parts[1], LeadingInteger(parts[2])),
                          LeadingInteger(parts[2]))

\* C25: a string literal "addr/pfx" with one "/" is a valid CIDR iff addr is a
\* valid address and the leading integer of pfx lies in [0, MAX_RANGE]; the
\* block constructed from it has that integer as its range; a string without
\* "/" is invalid.
C25_LeadingInteger ==
  (obj.k = "namespace" /\ op \in {"isValidCIDR", "cidr"} /\ arg.k = "string") =>
    RuleOfParts(JsSplit(arg.v, <<"/">>))

\* cidr("192.168.0.0/24.5") has returned a block of range 24
C25_WitnessFraction ==
  /\ op = "cidr"
  /\ arg = StringV(S0 \o <<"/", "2", "4", ".", "5">>)
  /\ res.k = "Ipv4Cidr" /\ res.range = 24

-----------------------------------------------------------------------------
(* Properties of interleaved iterations, under SpecInterleave *)

\* generator g of block c has yielded base + (g.i - 1) last, or has ended
\* after the expected number of addresses
YieldsInOrder(c, limit, g, calls) ==
  calls > 0 =>
    IF g.done THEN g.value = Undefined /\ SmallNum(c, g.i) = ExpectedYields(c, limit)
    ELSE /\ g.i = calls
         /\ g.value = WithGroups(c.address,
                        NumAdd(Radix(c), CidrBase(c), SmallNum(c, g.i - 1)))

\* C26: under every interleaving of next() calls on the generators of two
\* calls of addresses() on one block, each generator yields base, base + 1,
\* ... from the start, whatever the other has done.
C26_Independent ==
  op = "next" =>
    \A j \in 1..2 : YieldsInOrder(obj, arg, res.gens[j], res.calls[j])

-----------------------------------------------------------------------------
(* Properties of walks, under SpecWalk *)

GroupsInRange(a) ==
  /\ DOMAIN Groups(a) = 1..(IF IsV4(a) THEN 4 ELSE 8)
  /\ \A i \in DOMAIN Groups(a) : Groups(a)[i] \in 0..(Radix(a) - 1)
  /\ NumGe(Groups(a), MinSize(a)) /\ NumLe(Groups(a), MaxSize(a))

PrefixInRange(c) == c.range \in 0..Width(c) /\ GroupsInRange(c.address)

\* C27: every address a walk obtains has 4 octets in 0..255 or 8 hextets in
\* 0..0xFFFF, and every block it obtains has a prefix in [0, MAX_RANGE].
C27_ValuesInRange ==
  /\ IsAddress(obj) => GroupsInRange(obj)
  /\ IsCidr(obj) => PrefixInRange(obj)

\* a walk has gone from a block through two operations to networkCIDR()
C27_WitnessThirdStep ==
  /\ op = "networkCIDR"
  /\ arg = JsInt(3)
  /\ IsCidr(res) /\ obj = res


FormatErrors ==
  {"InvalidIpv4AddressError", "InvalidIpv4CidrError",
   "InvalidIpv6AddressError", "InvalidIpv6CidrError"}

\* the block's last address, base + addressCount - 1, is in the address space
WithinSpace(c) ==
  NumLe(NumSub(Radix(c), CidrEnd(c), One(c.address)), MaxSize(c.address))

\* C28: nextAddress, previousAddress, nextCIDR, previousCIDR, the usable
\* addresses, addresses(), subnet and subnetBy on a valid address, or on a
\* block whose range lies within the address space, never throw the
\* family's address or CIDR format error.
C28_NoFormatError ==
  (/\ op \in {"nextAddress", "previousAddress", "nextCIDR", "previousCIDR",
              "getFirstUsableAddress", "getLastUsableAddress", "addresses",
              "subnet", "subnetBy"}
   /\ IsCidr(obj) => WithinSpace(obj)) =>
    ~(res.k = "throw" /\ res.err \in FormatErrors)


-----------------------------------------------------------------------------
(* Properties of walks by successor, under SpecSuccessor *)

\* the integer n steps above and below the start of the walk
WalkUp(n) == NumAdd(Radix(arg), Groups(arg), NumOfInt(IF IsV4(arg) THEN 8 ELSE 16,
                                                      IF IsV4(arg) THEN 4 ELSE 8, n))
WalkDown(n) == NumSub(Radix(arg), Groups(arg), NumOfInt(IF IsV4(arg) THEN 8 ELSE 16,
                                                        IF IsV4(arg) THEN 4 ELSE 8, n))

\* C29: the n-th nextAddress() of a walk from a returns the address of
\* value(a) + n while that is at most MAX_SIZE, and undefined at the first n
\* for which it is not; the n-th previousAddress() returns the address of
\* value(a) - n while that is at least MIN_SIZE, and undefined at the first
\* n for which it is not.
C29_SuccessorWalk ==
  /\ op = "nextAddress" =>
       IF NumLe(WalkUp(res.steps), MaxSize(arg))
         THEN res.last = WithGroups(arg, WalkUp(res.steps)) /\ obj = res.last
         ELSE res.last = Undefined /\ WalkUp(res.steps - 1) = MaxSize(arg)
  /\ op = "previousAddress" =>
       IF NumGe(WalkDown(res.steps), MinSize(arg))
         THEN res.last = WithGroups(arg, WalkDown(res.steps)) /\ obj = res.last
         ELSE res.last = Undefined /\ WalkDown(res.steps - 1) = MinSize(arg)


-----------------------------------------------------------------------------
(* Properties of the usable addresses, under SpecUsable *)

\* C30: for a block whose prefix is below the family width, the first usable
\* address is at most the last in canonical integer order, and includes() is
\* true of both.
C30_UsableOrdered ==
  (op = "includes(usable)" /\ obj.range < Width(obj)) =>
    /\ res.k = "usable"
    /\ NumLe(Groups(res.first), Groups(res.last))
    /\ res.includesFirst = Bool(TRUE)
    /\ res.includesLast = Bool(TRUE)

====
